---- MODULE Spec2Model ----
(***************************************************************************)
(* Production-chain planner store (zustand store `usePlanner`, per-node    *)
(* expansion budgets) and the catalog helpers it imports; the earlier      *)
(* per-product store (expandedByProduct, frontierNeeds, collapseBranch);   *)
(* and the pure helpers pickRecipeWithPrefs and makeNode on their own.     *)
(*                                                                         *)
(* Numbers that are IEEE doubles in the program are exact rationals        *)
(* <<numerator, denominator>> here (denominator > 0, lowest terms).        *)
(* JavaScript `undefined` and `null` are the strings UNDEF and NULL, which *)
(* are no product, recipe id or building of the catalog.                   *)
(***************************************************************************)
EXTENDS Integers, Sequences, FiniteSets, TLC

VARIABLES targets, choicesRecipe, choicesBuilding, expandedByNode,
          graphNodes, graphEdges, totals, lastOp, ops,
          expandedByProduct, frontierNeeds, call, result

vars == <<targets, choicesRecipe, choicesBuilding, expandedByNode,
          graphNodes, graphEdges, totals, lastOp, ops,
          expandedByProduct, frontierNeeds, call, result>>

UNDEF == "<undefined>"
NULL == "<null>"

\* JavaScript truthiness of a string-or-null-or-undefined value
Truthy(v) == v # UNDEF /\ v # NULL /\ v # ""

\* ------------------------------------------------------------------ bounds
\* the sum of all stored budgets never exceeds MaxBudget
MaxBudget == 4
\* a behaviour makes at most MaxOps store calls
MaxOps == 4
\* largest hop count handed to expandBranchBy
MaxHops == 3

\* ------------------------------------------------------- generic helpers
Max(a, b) == IF a >= b THEN a ELSE b

Range(s) == {s[i] : i \in DOMAIN s}

RECURSIVE SetToSeq(_)
SetToSeq(S) == IF S = {} THEN <<>>
               ELSE LET x == CHOOSE y \in S : TRUE IN <<x>> \o SetToSeq(S \ {x})

\* obj[k] on a JavaScript record: the stored value, or undefined
Get(map, k) == IF k \in DOMAIN map THEN map[k] ELSE UNDEF
\* obj[k] ?? d
GetOr(map, k, d) == IF k \in DOMAIN map THEN map[k] ELSE d
\* { ...obj, [k]: v }
Put(map, k, v) == [x \in DOMAIN map \cup {k} |-> IF x = k THEN v ELSE map[x]]
\* delete obj[k]
Del(map, k) == [x \in DOMAIN map \ {k} |-> map[x]]
EmptyMap == [x \in {} |-> 0]

\* ------------------------------------------------------------- rationals
RECURSIVE Gcd(_, _)
Gcd(a, b) == IF b = 0 THEN a ELSE Gcd(b, a % b)

Abs(a) == IF a < 0 THEN -a ELSE a

Rat(n, d) == LET s == IF d < 0 THEN -1 ELSE 1
                 g == Gcd(Abs(n), Abs(d))
             IN <<(s * n) \div g, (s * d) \div g>>
RInt(n) == <<n, 1>>
RZero == <<0, 1>>
RMul(x, y) == Rat(x[1] * y[1], x[2] * y[2])
RDiv(x, y) == Rat(x[1] * y[2], x[2] * y[1])
RAdd(x, y) == Rat(x[1] * y[2] + y[1] * x[2], x[2] * y[2])
RLeq(x, y) == x[1] * y[2] <= y[1] * x[2]
\* Math.round(x * 100) / 100 : round half up, two decimals
r2(x) == Rat((200 * x[1] + x[2]) \div (2 * x[2]), 100)

\* ------------------------------------------------------------ the catalog
IO(name, qty) == [name |-> name, qtyPerCycle |-> qty]

Recipe(id, b, t, ins, outs) ==
    [recipeId |-> id, building |-> b, timeSec |-> t, inputs |-> ins, outputs |-> outs]

\* recipes.json as loaded: the rows of the catalog, in file order
RECIPES ==
    << Recipe("R1", "Asm",     2, <<IO("Plate", 2), IO("Rod", 1)>>,   <<IO("Gear", 1)>>),
       Recipe("R2", "Asm",     4, <<IO("Ingot", 1)>>,                 <<IO("Plate", 1)>>),
       Recipe("R3", "Forge",   2, <<IO("Ingot", 2)>>,                 <<IO("Plate", 1), IO("Slag", 1)>>),
       Recipe("R4", "Forge",   2, <<IO("Ingot", 1)>>,                 <<IO("Rod", 2)>>),
       Recipe("R5", "Smelter", 6, <<IO("Ore", 3), IO("Coal", 1)>>,    <<IO("Ingot", 1)>>),
       Recipe("R6", "Forge",   3, <<IO("Ore", 1), IO("Ingot", 1)>>,   <<IO("Ingot", 2)>>),
       Recipe("R7", "Crusher", 1, <<IO("Rock", 2)>>,                  <<IO("Ore", 1)>>),
       Recipe("R8", "Press",   1, <<IO("Plate", 1), IO("Plate", 1)>>, <<IO("Sheet", 1)>>),
       Recipe("R9", "Quarry",  2, <<>>,                               <<IO("Rock", 1)>>),
       Recipe("R10", "Lathe",   2, <<IO("Bar", 1)>>,                  <<IO("Cog", 1)>>),
       Recipe("R11", "Mill",    2, <<IO("Billet", 1)>>,               <<IO("Bar", 1)>>),
       Recipe("R12", "Caster",  2, <<IO("Lump", 1)>>,                 <<IO("Billet", 1)>>),
       Recipe("R13", "Kiln",    2, <<IO("Dust", 1)>>,                 <<IO("Lump", 1)>>),
       Recipe("R14", "Grinder", 2, <<IO("Sand", 2)>>,                 <<IO("Dust", 1)>>),
       Recipe("R15", "Recycler", 2, <<IO("Plate", 1)>>,               <<IO("Scrap", 0)>>),
       Recipe("R16", "Blender", 2, <<IO("Dust", 1), IO("Sand", 1)>>,  <<IO("Mix", 1)>>),
       Recipe("R17", "Reactor", 2, <<IO("Beta", 1)>>,                 <<IO("Alpha", 1)>>),
       Recipe("R18", "Reactor", 2, <<IO("Alpha", 1), IO("Sand", 1)>>, <<IO("Beta", 2)>>) >>

\* String.prototype.trim and toLowerCase on the names that occur
Trim(s) == CASE s = " Gear " -> "Gear"
             [] OTHER -> s

ToLower(s) == CASE s = "Gear" -> "gear"
                [] s = "Plate" -> "plate"
                [] s = "Rod" -> "rod"
                [] s = "Ingot" -> "ingot"
                [] s = "Ore" -> "ore"
                [] s = "Coal" -> "coal"
                [] s = "Slag" -> "slag"
                [] s = "Sheet" -> "sheet"
                [] s = "Rock" -> "rock"
                [] s = "Cog" -> "cog"
                [] s = "Bar" -> "bar"
                [] s = "Billet" -> "billet"
                [] s = "Lump" -> "lump"
                [] s = "Dust" -> "dust"
                [] s = "Sand" -> "sand"
                [] s = "Scrap" -> "scrap"
                [] s = "Mix" -> "mix"
                [] s = "Alpha" -> "alpha"
                [] s = "Beta" -> "beta"
                [] OTHER -> s

SameName(a, b) == ToLower(Trim(a)) = ToLower(Trim(b))

\* indices (into `outs`) of the outputs whose trimmed name is `product`
RECURSIVE OutputHits(_, _, _)
OutputHits(r, product, k) ==
    IF k > Len(RECIPES[r].outputs) THEN <<>>
    ELSE (IF Trim(RECIPES[r].outputs[k].name) = product THEN <<r>> ELSE <<>>)
         \o OutputHits(r, product, k + 1)

\* PRODUCT_INDEX[product]: the recipes (as indices into RECIPES) pushed under
\* the key `product`, in catalog order; <<>> stands for a missing key
RECURSIVE IndexFrom(_, _)
IndexFrom(product, r) ==
    IF r > Len(RECIPES) THEN <<>>
    ELSE OutputHits(r, product, 1) \o IndexFrom(product, r + 1)

\* the keys of PRODUCT_INDEX: the trimmed names of all outputs
IndexKeys ==
    {Trim(o.name) : o \in UNION {{RECIPES[r].outputs[k] : k \in DOMAIN RECIPES[r].outputs} :
                                   r \in DOMAIN RECIPES}}

\* the index object, built once when the module is loaded
IndexTable == [product \in IndexKeys |-> IndexFrom(product, 1)]

PRODUCT_INDEX(product) == IF product \in IndexKeys THEN IndexTable[product] ELSE <<>>

\* !!PRODUCT_INDEX[name]
Craftable(name) == PRODUCT_INDEX(name) # <<>>

\* list.find((x) => x.recipeId === id): first hit as a RECIPES index, or 0
RECURSIVE FindById(_, _, _)
FindById(list, id, k) ==
    IF k > Len(list) THEN 0
    ELSE IF RECIPES[list[k]].recipeId = id THEN list[k]
    ELSE FindById(list, id, k + 1)

\* list.find((x) => x.building === b): first hit as a RECIPES index, or 0
RECURSIVE FindByBuilding(_, _, _)
FindByBuilding(list, b, k) ==
    IF k > Len(list) THEN 0
    ELSE IF RECIPES[list[k]].building = b THEN list[k]
    ELSE FindByBuilding(list, b, k + 1)

\* The helpers below hand every intermediate result on as an operator
\* argument (the `const x = ...` of the program), so that each is computed once.

\* outputRatePerMin(r, product): `hits` are the positions of the matching outputs
RateOfFirst(recipe, hits) ==
    IF hits = {} THEN RZero
    ELSE RMul(RDiv(RInt(recipe.outputs[CHOOSE k \in hits : \A j \in hits : k <= j].qtyPerCycle),
                   RInt(recipe.timeSec)), RInt(60))

\* an output rate per second: qtyPerCycle / timeSec, without the factor 60
outputRatePerSec(recipe, product) ==
    RDiv(RateOfFirst(recipe, {k \in DOMAIN recipe.outputs : SameName(recipe.outputs[k].name, product)}),
         RInt(60))

outputRatePerMin(recipe, product) ==
    RateOfFirst(recipe, {k \in DOMAIN recipe.outputs : SameName(recipe.outputs[k].name, product)})

\* ------------------------------------------------------------ store helpers
nodeIdFor(product, recipeId) == product \o "::" \o recipeId

\* a clamp to one run per minute, not to none, when the rate is 0
RunsForOne(rate, requiredRatePerMin) ==
    IF rate # RZero THEN RDiv(requiredRatePerMin, rate) ELSE RInt(1)

\* const runs = rate ? requiredRatePerMin / rate : 0
RunsFor(rate, requiredRatePerMin) ==
    IF rate # RZero THEN RDiv(requiredRatePerMin, rate) ELSE RZero

\* the node makeNode returns, given `runs`
NodeWithRuns(recipe, targetProduct, runs, depth) ==
    [ id         |-> nodeIdFor(targetProduct, recipe.recipeId),
      product    |-> targetProduct,
      recipeId   |-> recipe.recipeId,
      building   |-> recipe.building,
      runsPerMin |-> runs,
      timeSec    |-> recipe.timeSec,
      inputs     |-> [k \in DOMAIN recipe.inputs |->
                        [name |-> recipe.inputs[k].name,
                         ratePerMin |-> RMul(runs, RInt(recipe.inputs[k].qtyPerCycle))]],
      outputs    |-> [k \in DOMAIN recipe.outputs |->
                        [name |-> recipe.outputs[k].name,
                         ratePerMin |-> RMul(RMul(runs, RDiv(RInt(recipe.outputs[k].qtyPerCycle),
                                                             RInt(recipe.timeSec))), RInt(60)),
                         isTarget |-> SameName(recipe.outputs[k].name, targetProduct)]],
      depth      |-> depth ]

\* makeNode(recipe, targetProduct, requiredRatePerMin, depth)
makeNode(recipe, targetProduct, requiredRatePerMin, depth) ==
    NodeWithRuns(recipe, targetProduct,
                 RunsFor(outputRatePerMin(recipe, targetProduct), requiredRatePerMin), depth)

\* a resolution that asks the sticky preferredBuilding before the parent's building
PickFromPreferredFirst(list, explicitRecipe, preferredBuilding, parentBuildingPreferred) ==
    IF Truthy(explicitRecipe) /\ FindById(list, explicitRecipe, 1) # 0
    THEN FindById(list, explicitRecipe, 1)
    ELSE IF Truthy(preferredBuilding) /\ FindByBuilding(list, preferredBuilding, 1) # 0
    THEN FindByBuilding(list, preferredBuilding, 1)
    ELSE IF Truthy(parentBuildingPreferred) /\ FindByBuilding(list, parentBuildingPreferred, 1) # 0
    THEN FindByBuilding(list, parentBuildingPreferred, 1)
    ELSE IF list = <<>> THEN 0 ELSE list[1]

\* a resolution that asks the parent's building before the explicit recipe
PickFromHintFirst(list, explicitRecipe, preferredBuilding, parentBuildingPreferred) ==
    IF Truthy(parentBuildingPreferred) /\ FindByBuilding(list, parentBuildingPreferred, 1) # 0
    THEN FindByBuilding(list, parentBuildingPreferred, 1)
    ELSE IF Truthy(explicitRecipe) /\ FindById(list, explicitRecipe, 1) # 0
    THEN FindById(list, explicitRecipe, 1)
    ELSE IF Truthy(preferredBuilding) /\ FindByBuilding(list, preferredBuilding, 1) # 0
    THEN FindByBuilding(list, preferredBuilding, 1)
    ELSE IF list = <<>> THEN 0 ELSE list[1]

\* the body of pickRecipeWithPrefs once `list` is read: a RECIPES index, or 0
\* for undefined (list[0] of an empty list)
PickFrom(list, explicitRecipe, preferredBuilding, parentBuildingPreferred) ==
    IF Truthy(explicitRecipe) /\ FindById(list, explicitRecipe, 1) # 0
    THEN FindById(list, explicitRecipe, 1)
    ELSE IF Truthy(parentBuildingPreferred) /\ FindByBuilding(list, parentBuildingPreferred, 1) # 0
    THEN FindByBuilding(list, parentBuildingPreferred, 1)
    ELSE IF Truthy(preferredBuilding) /\ FindByBuilding(list, preferredBuilding, 1) # 0
    THEN FindByBuilding(list, preferredBuilding, 1)
    ELSE IF list = <<>> THEN 0 ELSE list[1]

\* a resolution that falls back to the first recipe of the catalog when the
\* product's list is empty
pickRecipeOrFirst(product, explicitRecipe, preferredBuilding, parentBuildingPreferred) ==
    IF PRODUCT_INDEX(product) = <<>> THEN 1
    ELSE PickFrom(PRODUCT_INDEX(product), explicitRecipe, preferredBuilding, parentBuildingPreferred)

pickRecipeWithPrefs(product, explicitRecipe, preferredBuilding, parentBuildingPreferred) ==
    PickFrom(PRODUCT_INDEX(product), explicitRecipe, preferredBuilding, parentBuildingPreferred)

\* computeTotals(nodes)
RECURSIVE FlattenInputs(_, _)
FlattenInputs(nodes, k) ==
    IF k > Len(nodes) THEN <<>> ELSE nodes[k].inputs \o FlattenInputs(nodes, k + 1)

RECURSIVE FlattenOutputs(_, _)
FlattenOutputs(nodes, k) ==
    IF k > Len(nodes) THEN <<>> ELSE nodes[k].outputs \o FlattenOutputs(nodes, k + 1)

\* the running sum of the rates of the entries of `ios` named `name`
RECURSIVE SumNamed(_, _, _)
SumNamed(ios, name, k) ==
    IF k > Len(ios) THEN RZero
    ELSE RAdd(IF ios[k].name = name THEN ios[k].ratePerMin ELSE RZero,
              SumNamed(ios, name, k + 1))

\* the record of rounded sums per name over the entries `ios`
SumsByName(ios) == [name \in {i.name : i \in Range(ios)} |-> r2(SumNamed(ios, name, 1))]

IsRawInput(i) == ~Craftable(i.name)

IsByproduct(o) == ~o.isTarget

\* totals that count every input, craftable or not
computeTotalsAllInputs(nodes) ==
    [ raw        |-> SumsByName(FlattenInputs(nodes, 1)),
      byproducts |-> SumsByName(SelectSeq(FlattenOutputs(nodes, 1), IsByproduct)) ]

computeTotals(nodes) ==
    [ raw        |-> SumsByName(SelectSeq(FlattenInputs(nodes, 1), IsRawInput)),
      byproducts |-> SumsByName(SelectSeq(FlattenOutputs(nodes, 1), IsByproduct)) ]

EmptyTotals == [raw |-> EmptyMap, byproducts |-> EmptyMap]

\* ------------------------------------------------------------------ build()
\* position in `nodes` of the first node out of the positions `hits`, or 0
FirstOf(hits) == IF hits = {} THEN 0 ELSE CHOOSE k \in hits : \A j \in hits : k <= j

\* byKey.get(id) / byId.get(id): position of the node in `nodes`, or 0
NodeIndex(nodes, id) == FirstOf({k \in DOMAIN nodes : nodes[k].id = id})

\* a variant of EnsureAt that never looks the key up: a new node on every call
EnsureAtFresh(g, r, product, requiredRatePerMin, depth, at) ==
    [g |-> [g EXCEPT !.nodes =
              Append(@, makeNode(RECIPES[r], product, requiredRatePerMin, depth))],
     node |-> Len(g.nodes) + 1]

\* an ensureNode that recomputes a node it finds from the rate asked for last
EnsureAtLatest(g, r, product, requiredRatePerMin, depth, at) ==
    IF at = 0
    THEN [g |-> [g EXCEPT !.nodes =
                   Append(@, makeNode(RECIPES[r], product, requiredRatePerMin, depth))],
          node |-> Len(g.nodes) + 1]
    ELSE [g |-> [g EXCEPT !.nodes[at] =
                   makeNode(RECIPES[r], product, requiredRatePerMin, g.nodes[at].depth)],
          node |-> at]

\* an ensureNode that moves a node it finds to the depth of the latest visit
EnsureAtRedepth(g, r, product, requiredRatePerMin, depth, at) ==
    IF at = 0
    THEN [g |-> [g EXCEPT !.nodes =
                   Append(@, makeNode(RECIPES[r], product, requiredRatePerMin, depth))],
          node |-> Len(g.nodes) + 1]
    ELSE [g |-> [g EXCEPT !.nodes[at].depth = depth], node |-> at]

\* ensureNode after `let n = byKey.get(key)`: `at` is the position found, or 0
EnsureAt(g, r, product, requiredRatePerMin, depth, at) ==
    IF at = 0
    THEN [g |-> [g EXCEPT !.nodes =
                   Append(@, makeNode(RECIPES[r], product, requiredRatePerMin, depth))],
          node |-> Len(g.nodes) + 1]
    ELSE [g |-> g, node |-> at]

\* ensureNode after pickRecipeWithPrefs returned r
EnsurePicked(g, r, product, requiredRatePerMin, depth) ==
    IF r = 0 THEN [g |-> g, node |-> 0]
    ELSE EnsureAt(g, r, product, requiredRatePerMin, depth,
                  NodeIndex(g.nodes, nodeIdFor(product, RECIPES[r].recipeId)))

\* ensureNode: [g |-> the graph under construction, node |-> position of the
\* node for `product` in g.nodes, or 0 when no recipe produces it]
ensureNode(g, env, product, requiredRatePerMin, depth, parentBuilding) ==
    EnsurePicked(g, pickRecipeWithPrefs(product, Get(env.choicesRecipe, product),
                                        Get(env.choicesBuilding, product), parentBuilding),
                 product, requiredRatePerMin, depth)

\* a connect that labels the edge with the product of the parent
connectLabelSource(g, parent, child, label) ==
    [g EXCEPT !.edges = Append(@,
        [id     |-> parent.id \o "=>" \o child.id \o "#" \o ToString(Len(g.edges)),
         source |-> parent.id, target |-> child.id, label |-> parent.product])]

\* connect(parent, child, label)
connect(g, parent, child, label) ==
    [g EXCEPT !.edges = Append(@,
        [id     |-> parent.id \o "=>" \o child.id \o "#" \o ToString(Len(g.edges)),
         source |-> parent.id, target |-> child.id, label |-> label])]

\* baseline: `if (child) connect(root, child, i.name)`, e the result of ensureNode
BaselineChild(e, root, label) ==
    IF e.node # 0 THEN connect(e.g, e.g.nodes[root], e.g.nodes[e.node], label) ELSE e.g

\* the inner loop of "roots + one hop", from input k of the root on
RECURSIVE BaselineInputs(_, _, _, _)
BaselineInputs(g, env, root, k) ==
    IF k > Len(g.nodes[root].inputs) THEN g
    ELSE IF ~Craftable(g.nodes[root].inputs[k].name) THEN BaselineInputs(g, env, root, k + 1)
    ELSE BaselineInputs(
            BaselineChild(ensureNode(g, env, g.nodes[root].inputs[k].name,
                                     g.nodes[root].inputs[k].ratePerMin, 1,
                                     g.nodes[root].building),
                          root, g.nodes[root].inputs[k].name),
            env, root, k + 1)

\* a variant of BaselineRoot that materialises the root and none of its inputs
BaselineRootAlone(e, env) == e.g

\* baseline: `if (!root) continue;` then the inner loop, e the result of ensureNode
BaselineRoot(e, env) == IF e.node = 0 THEN e.g ELSE BaselineInputs(e.g, env, e.node, 1)

\* "roots + one hop": the loop over the targets, from target t on
RECURSIVE Baseline(_, _, _)
Baseline(g, env, t) ==
    IF t > Len(env.targets) THEN g
    ELSE Baseline(BaselineRoot(ensureNode(g, env, env.targets[t].product,
                                          env.targets[t].ratePerMin, 0, UNDEF), env),
                  env, t + 1)

\* the seeding loop: every baseline node with a positive stored budget
RECURSIVE Seed(_, _, _)
Seed(st, env, k) ==
    IF k > Len(st.nodes) THEN st
    ELSE IF GetOr(env.expandedByNode, st.nodes[k].id, 0) > 0
    THEN Seed([st EXCEPT !.bestRem = Put(@, st.nodes[k].id, env.expandedByNode[st.nodes[k].id]),
                         !.queue = Append(@, [id |-> st.nodes[k].id,
                                              rem |-> env.expandedByNode[st.nodes[k].id]])],
              env, k + 1)
    ELSE Seed(st, env, k + 1)

\* `if (!edges.some(...)) connect(parent, child, i.name)`
LinkOnce(g, parent, child, label) ==
    IF \E x \in Range(g.edges) : x.source = parent.id /\ x.target = child.id
    THEN g ELSE connect(g, parent, child, label)

\* a relaxation that re-enqueues the child whenever its allowance is positive
RelaxAlways(g, bestRem, queue, childId, childAllowance) ==
    IF childAllowance > 0
    THEN [ nodes |-> g.nodes, edges |-> g.edges,
           bestRem |-> Put(bestRem, childId, childAllowance),
           queue |-> Append(queue, [id |-> childId, rem |-> childAllowance]) ]
    ELSE [ nodes |-> g.nodes, edges |-> g.edges, bestRem |-> bestRem, queue |-> queue ]

\* the max-relaxation of the child's allowance, g the graph after LinkOnce
Relax(g, bestRem, queue, childId, childAllowance) ==
    IF childAllowance > 0 /\ childAllowance > GetOr(bestRem, childId, -1)
    THEN [ nodes |-> g.nodes, edges |-> g.edges,
           bestRem |-> Put(bestRem, childId, childAllowance),
           queue |-> Append(queue, [id |-> childId, rem |-> childAllowance]) ]
    ELSE [ nodes |-> g.nodes, edges |-> g.edges, bestRem |-> bestRem, queue |-> queue ]

\* a loop body that hands the child effParent - 1 and never asks for the
\* child's own budget
BfsChildInherit(st, env, parent, effParent, label, e) ==
    IF e.node = 0 THEN st
    ELSE Relax(LinkOnce(e.g, parent, e.g.nodes[e.node], label), st.bestRem, st.queue,
               e.g.nodes[e.node].id, effParent - 1)

\* the body of the loop over parent.inputs after ensureNode returned e
BfsChild(st, env, parent, effParent, label, e) ==
    IF e.node = 0 THEN st
    ELSE Relax(LinkOnce(e.g, parent, e.g.nodes[e.node], label), st.bestRem, st.queue,
               e.g.nodes[e.node].id,
               Max(effParent - 1, GetOr(env.expandedByNode, e.g.nodes[e.node].id, 0)))

\* the loop over parent.inputs of one dequeued item, from input k on
RECURSIVE BfsInputs(_, _, _, _, _)
BfsInputs(st, env, parent, effParent, k) ==
    IF k > Len(st.nodes[parent].inputs) THEN st
    ELSE IF ~Craftable(st.nodes[parent].inputs[k].name)
    THEN BfsInputs(st, env, parent, effParent, k + 1)
    ELSE BfsInputs(
            BfsChild(st, env, st.nodes[parent], effParent, st.nodes[parent].inputs[k].name,
                     ensureNode([nodes |-> st.nodes, edges |-> st.edges], env,
                                st.nodes[parent].inputs[k].name,
                                st.nodes[parent].inputs[k].ratePerMin,
                                st.nodes[parent].depth + 1, st.nodes[parent].building)),
            env, parent, effParent, k + 1)

\* one iteration of `while (queue.length)`, parent the position byId.get(id) finds
BfsVisit(st, env, item, parent) ==
    IF item.rem <= 0 THEN st
    ELSE IF parent = 0 THEN st
    ELSE BfsInputs(st, env, parent,
                   Max(item.rem, GetOr(env.expandedByNode, st.nodes[parent].id, 0)), 1)

BfsStep(st, env) ==
    BfsVisit([st EXCEPT !.queue = Tail(@)], env, Head(st.queue),
             NodeIndex(st.nodes, Head(st.queue).id))

RECURSIVE BfsRun(_, _)
BfsRun(st, env) == IF st.queue = <<>> THEN st ELSE BfsRun(BfsStep(st, env), env)

\* the state of the expansion when the queue is seeded, g the baseline graph
Seeded(g, env) ==
    Seed([nodes |-> g.nodes, edges |-> g.edges, bestRem |-> EmptyMap, queue |-> <<>>], env, 1)

\* what build() hands to set(), st the state of the expansion at its end
Published(st) ==
    [graphNodes |-> st.nodes, graphEdges |-> st.edges, totals |-> computeTotals(st.nodes)]

\* a build that adds to the published nodes and edges instead of starting empty
BuildGraphOnTop(env) ==
    IF Len(env.targets) = 0
    THEN [graphNodes |-> <<>>, graphEdges |-> <<>>, totals |-> EmptyTotals]
    ELSE Published(BfsRun(Seeded(Baseline([nodes |-> env.graphNodes, edges |-> env.graphEdges],
                                          env, 1), env), env))

\* what build() publishes for the store state `env`
BuildGraph(env) ==
    IF Len(env.targets) = 0
    THEN [graphNodes |-> <<>>, graphEdges |-> <<>>, totals |-> EmptyTotals]
    ELSE Published(BfsRun(Seeded(Baseline([nodes |-> <<>>, edges |-> <<>>], env, 1), env), env))

\* ------------------------------------------------------------ the store
\* The store operations as functions of the store state s, a record
\* [targets, choicesRecipe, choicesBuilding, expandedByNode, graphNodes,
\*  graphEdges, totals]; each returns the store state after the call.

\* build: () => { ... set({ graphNodes, graphEdges, totals }) }
Publish(s, b) ==
    [s EXCEPT !.graphNodes = b.graphNodes, !.graphEdges = b.graphEdges, !.totals = b.totals]

build(s) == Publish(s, BuildGraph(s))

\* setTarget: (t) => set({ targets: [t] })
setTarget(s, t) == [s EXCEPT !.targets = <<t>>]

\* setChoiceRecipe(product, recipeId), b the building of the chosen recipe
ChoiceWithBuilding(s, product, recipeId, b) ==
    [s EXCEPT !.choicesRecipe = Put(@, product, recipeId),
              !.choicesBuilding = IF Truthy(b) THEN Put(@, product, b) ELSE @]

\* chosen?.building, chosen a RECIPES index or 0
BuildingOf(chosen) == IF chosen # 0 THEN RECIPES[chosen].building ELSE UNDEF

setChoiceRecipe(s, product, recipeId) ==
    ChoiceWithBuilding(s, product, recipeId,
        BuildingOf(IF Truthy(recipeId) THEN FindById(PRODUCT_INDEX(product), recipeId, 1) ELSE 0))

\* setChoiceBuilding(product, building)
setChoiceBuilding(s, product, building) ==
    [s EXCEPT !.choicesBuilding = Put(@, product, building)]

\* a variant of resetExpansions that keeps the stored budgets
resetExpansionsKept(s) == s

\* resetExpansions: () => set({ expandedByNode: {} })
resetExpansions(s) == [s EXCEPT !.expandedByNode = EmptyMap]

\* a variant of expandNodeOnce that stores the budget and does not rebuild
expandNodeOnceStored(s, nodeId) ==
    [s EXCEPT !.expandedByNode = Put(@, nodeId, GetOr(@, nodeId, 0) + 1)]

\* expandNodeOnce(nodeId)
expandNodeOnce(s, nodeId) ==
    build([s EXCEPT !.expandedByNode = Put(@, nodeId, GetOr(@, nodeId, 0) + 1)])

\* a variant of expandBranchBy that replaces the stored budget instead of adding to it
expandBranchBySet(s, nodeId, hops) ==
    build([s EXCEPT !.expandedByNode = Put(@, nodeId, Max(1, hops))])

\* a variant of expandBranchBy that adds hops as given, without the floor of 1
expandBranchByRaw(s, nodeId, hops) ==
    build([s EXCEPT !.expandedByNode = Put(@, nodeId, GetOr(@, nodeId, 0) + hops)])

\* expandBranchBy(nodeId, hops)
expandBranchBy(s, nodeId, hops) ==
    build([s EXCEPT !.expandedByNode = Put(@, nodeId, GetOr(@, nodeId, 0) + Max(1, hops))])

\* a variant of MigrateBudget that drops the budget of nodeId instead of moving it
MigrateBudgetDropped(expanded, nodeId, newId, prevBudget) == Del(expanded, nodeId)

\* swapNodeRecipe: the migration of the budget from nodeId to newId
MigrateBudget(expanded, nodeId, newId, prevBudget) ==
    Del(IF prevBudget > 0
        THEN Put(expanded, newId, Max(prevBudget, GetOr(expanded, newId, 0)))
        ELSE expanded,
        nodeId)

\* swapNodeRecipe once the node is found
SwapFound(s, node, nodeId, recipeId, building) ==
    build([s EXCEPT !.choicesRecipe = Put(@, node.product, recipeId),
                    !.choicesBuilding = IF Truthy(building)
                                        THEN Put(@, node.product, building) ELSE @,
                    !.expandedByNode =
                        MigrateBudget(@, nodeId, nodeIdFor(node.product, recipeId),
                                      GetOr(@, nodeId, 0))])

\* swapNodeRecipe after `s.graphNodes.find(...)`: `at` is the position found, or 0
SwapAt(s, nodeId, recipeId, at) ==
    IF at = 0 THEN s
    ELSE SwapFound(s, s.graphNodes[at], nodeId, recipeId,
                   BuildingOf(FindById(PRODUCT_INDEX(s.graphNodes[at].product), recipeId, 1)))

\* swapNodeRecipe(nodeId, recipeId)
swapNodeRecipe(s, nodeId, recipeId) ==
    SwapAt(s, nodeId, recipeId, NodeIndex(s.graphNodes, nodeId))

\* ------------------------------------------------------- the state machine
\* the store state held by the variables
Cur == [ targets |-> targets, choicesRecipe |-> choicesRecipe,
         choicesBuilding |-> choicesBuilding, expandedByNode |-> expandedByNode,
         graphNodes |-> graphNodes, graphEdges |-> graphEdges, totals |-> totals ]

\* the variables take the store state s
Becomes(s) ==
    /\ targets' = s.targets
    /\ choicesRecipe' = s.choicesRecipe
    /\ choicesBuilding' = s.choicesBuilding
    /\ expandedByNode' = s.expandedByNode
    /\ graphNodes' = s.graphNodes
    /\ graphEdges' = s.graphEdges
    /\ totals' = s.totals
    /\ UNCHANGED <<expandedByProduct, frontierNeeds, call, result>>

\* no helper is being called
NoCall == [fn |-> "none"]

\* the call has not returned yet
NoResult == [done |-> FALSE]

\* lastOp names the last store call and its arguments; built tells whether
\* that call ran build(). ops counts the store calls made so far.
Op(op, id, arg, hops, built) ==
    [op |-> op, id |-> id, arg |-> arg, hops |-> hops, built |-> built]

RECURSIVE SumOver(_, _)
SumOver(map, keys) ==
    IF keys = {} THEN 0
    ELSE LET k == CHOOSE x \in keys : TRUE IN map[k] + SumOver(map, keys \ {k})

BudgetSum(map) == SumOver(map, DOMAIN map)

\* the inputs the operations are called with
TargetInputs ==
    { [product |-> p, ratePerMin |-> RInt(60)] : p \in {"Gear", "Sheet", "Coal"} }

ChoiceRecipeInputs == { <<"Plate", "R3">>, <<"Plate", NULL>> }

ChoiceBuildingInputs == { <<"Ingot", "Forge">> }

\* node ids handed to the expand operations: each may or may not be the id
\* of a node of the current graph
NodeIdInputs == { "Gear::R1", "Plate::R2", "Plate::R3" }

\* (node id, hops) handed to expandBranchBy: MaxHops on every id, and zero and
\* negative hops on one
ExpandBranchInputs ==
    { <<id, MaxHops>> : id \in NodeIdInputs } \cup { <<"Plate::R2", 0>>, <<"Plate::R2", -1>> }

\* (node id, recipe id) handed to swapNodeRecipe: another recipe of the
\* product, the node's own recipe, and a recipe that does not make the product
SwapInputs == { <<"Plate::R2", "R3">>, <<"Plate::R3", "R2">>, <<"Plate::R2", "R2">>,
                <<"Plate::R2", "R5">> }

Init ==
    /\ targets = <<>>
    /\ choicesRecipe = EmptyMap
    /\ choicesBuilding = EmptyMap
    /\ expandedByNode = EmptyMap
    /\ graphNodes = <<>>
    /\ graphEdges = <<>>
    /\ totals = EmptyTotals
    /\ lastOp = Op("init", "", "", 0, FALSE)
    /\ ops = 0
    /\ expandedByProduct = EmptyMap
    /\ frontierNeeds = EmptyMap
    /\ call = NoCall
    /\ result = NoResult

SetTarget ==
    \E t \in TargetInputs :
        /\ ops < MaxOps
        /\ Becomes(setTarget(Cur, t))
        /\ lastOp' = Op("setTarget", t.product, "", 0, FALSE)
        /\ ops' = ops + 1

\* TargetBuilder's onGenerate / onSubmit: setTarget(...) followed by build()
Generate ==
    \E t \in TargetInputs :
        /\ ops < MaxOps
        /\ Becomes(build(setTarget(Cur, t)))
        /\ lastOp' = Op("generate", t.product, "", 0, TRUE)
        /\ ops' = ops + 1

SetChoiceRecipe ==
    \E c \in ChoiceRecipeInputs :
        /\ ops < MaxOps
        /\ Becomes(setChoiceRecipe(Cur, c[1], c[2]))
        /\ lastOp' = Op("setChoiceRecipe", c[1], c[2], 0, FALSE)
        /\ ops' = ops + 1

SetChoiceBuilding ==
    \E c \in ChoiceBuildingInputs :
        /\ ops < MaxOps
        /\ Becomes(setChoiceBuilding(Cur, c[1], c[2]))
        /\ lastOp' = Op("setChoiceBuilding", c[1], c[2], 0, FALSE)
        /\ ops' = ops + 1

Build ==
    /\ ops < MaxOps
    /\ Becomes(build(Cur))
    /\ lastOp' = Op("build", "", "", 0, TRUE)
    /\ ops' = ops + 1

ResetExpansions ==
    /\ ops < MaxOps
    /\ Becomes(resetExpansions(Cur))
    /\ lastOp' = Op("resetExpansions", "", "", 0, FALSE)
    /\ ops' = ops + 1

ExpandNodeOnce ==
    \E id \in NodeIdInputs :
        /\ ops < MaxOps
        /\ BudgetSum(expandedByNode) + 1 <= MaxBudget
        /\ Becomes(expandNodeOnce(Cur, id))
        /\ lastOp' = Op("expandNodeOnce", id, "", 1, TRUE)
        /\ ops' = ops + 1

ExpandBranchBy ==
    \E c \in ExpandBranchInputs :
        /\ ops < MaxOps
        /\ BudgetSum(expandedByNode) + Max(1, c[2]) <= MaxBudget
        /\ Becomes(expandBranchBy(Cur, c[1], c[2]))
        /\ lastOp' = Op("expandBranchBy", c[1], "", c[2], TRUE)
        /\ ops' = ops + 1

SwapNodeRecipe ==
    \E c \in SwapInputs :
        /\ ops < MaxOps
        /\ Becomes(swapNodeRecipe(Cur, c[1], c[2]))
        /\ lastOp' = Op("swapNodeRecipe", c[1], c[2], 0, NodeIndex(graphNodes, c[1]) # 0)
        /\ ops' = ops + 1

Next ==
    \/ SetTarget
    \/ Generate
    \/ SetChoiceRecipe
    \/ SetChoiceBuilding
    \/ Build
    \/ ResetExpansions
    \/ ExpandNodeOnce
    \/ ExpandBranchBy
    \/ SwapNodeRecipe

Spec == Init /\ [][Next]_vars

\* ------------------------------------------------- the per-product store
\* The earlier store keeps one budget per product name (expandedByProduct)
\* and publishes frontierNeeds beside the totals. Its store state is a record
\* [targets, choicesRecipe, choicesBuilding, expandedByProduct, graphNodes,
\*  graphEdges, totals, frontierNeeds]. nodeIdFor, makeNode, computeTotals,
\* pickRecipeWithPrefs, ensureNode, connect and the baseline loop read the
\* same there as in the per-node store; setTarget, setChoiceRecipe and
\* setChoiceBuilding too.

\* computeFrontierNeeds: the nodes that are the source of no edge, from node k on
RECURSIVE Leaves(_, _, _)
Leaves(nodes, edges, k) ==
    IF k > Len(nodes) THEN <<>>
    ELSE (IF \E e \in Range(edges) : e.source = nodes[k].id THEN <<>> ELSE <<nodes[k]>>)
         \o Leaves(nodes, edges, k + 1)

\* the nodes that are the target of no edge, from node k on
RECURSIVE Orphans(_, _, _)
Orphans(nodes, edges, k) ==
    IF k > Len(nodes) THEN <<>>
    ELSE (IF \E e \in Range(edges) : e.target = nodes[k].id THEN <<>> ELSE <<nodes[k]>>)
         \o Orphans(nodes, edges, k + 1)

\* needs summed over the nodes nothing points to, instead of those that point
\* to nothing
computeNeedsOfOrphans(nodes, edges) == SumsByName(FlattenInputs(Orphans(nodes, edges, 1), 1))

\* needs summed over the inputs of every node, leaf or not
computeNeedsOfAll(nodes, edges) == SumsByName(FlattenInputs(nodes, 1))

computeFrontierNeeds(nodes, edges) == SumsByName(FlattenInputs(Leaves(nodes, edges, 1), 1))

\* the seeding loop: every baseline node whose product has a positive budget
RECURSIVE SeedP(_, _, _)
SeedP(st, env, k) ==
    IF k > Len(st.nodes) THEN st
    ELSE IF GetOr(env.expandedByProduct, st.nodes[k].product, 0) > 0
    THEN SeedP([st EXCEPT !.bestRem = Put(@, st.nodes[k].id,
                                          env.expandedByProduct[st.nodes[k].product]),
                          !.queue = Append(@, [id |-> st.nodes[k].id,
                                               rem |-> env.expandedByProduct[st.nodes[k].product]])],
               env, k + 1)
    ELSE SeedP(st, env, k + 1)

\* the body of the loop over parent.inputs after ensureNode returned e
BfsChildP(st, env, parent, effParent, label, e) ==
    IF e.node = 0 THEN st
    ELSE Relax(LinkOnce(e.g, parent, e.g.nodes[e.node], label), st.bestRem, st.queue,
               e.g.nodes[e.node].id,
               Max(effParent - 1, GetOr(env.expandedByProduct, e.g.nodes[e.node].product, 0)))

\* the loop over parent.inputs of one dequeued item, from input k on
RECURSIVE BfsInputsP(_, _, _, _, _)
BfsInputsP(st, env, parent, effParent, k) ==
    IF k > Len(st.nodes[parent].inputs) THEN st
    ELSE IF ~Craftable(st.nodes[parent].inputs[k].name)
    THEN BfsInputsP(st, env, parent, effParent, k + 1)
    ELSE BfsInputsP(
            BfsChildP(st, env, st.nodes[parent], effParent, st.nodes[parent].inputs[k].name,
                      ensureNode([nodes |-> st.nodes, edges |-> st.edges], env,
                                 st.nodes[parent].inputs[k].name,
                                 st.nodes[parent].inputs[k].ratePerMin,
                                 st.nodes[parent].depth + 1, st.nodes[parent].building)),
            env, parent, effParent, k + 1)

\* one iteration of `while (queue.length)`, parent the position byId.get(id) finds
BfsVisitP(st, env, item, parent) ==
    IF item.rem <= 0 THEN st
    ELSE IF parent = 0 THEN st
    ELSE BfsInputsP(st, env, parent,
                    Max(item.rem, GetOr(env.expandedByProduct, st.nodes[parent].product, 0)), 1)

BfsStepP(st, env) ==
    BfsVisitP([st EXCEPT !.queue = Tail(@)], env, Head(st.queue),
              NodeIndex(st.nodes, Head(st.queue).id))

RECURSIVE BfsRunP(_, _)
BfsRunP(st, env) == IF st.queue = <<>> THEN st ELSE BfsRunP(BfsStepP(st, env), env)

SeededP(g, env) ==
    SeedP([nodes |-> g.nodes, edges |-> g.edges, bestRem |-> EmptyMap, queue |-> <<>>], env, 1)

\* what build() hands to set(), st the state of the expansion at its end
PublishedP(st) ==
    [graphNodes |-> st.nodes, graphEdges |-> st.edges, totals |-> computeTotals(st.nodes),
     frontierNeeds |-> computeFrontierNeeds(st.nodes, st.edges)]

\* what the per-product build() publishes for the store state `env`
BuildGraphP(env) ==
    IF Len(env.targets) = 0
    THEN [graphNodes |-> <<>>, graphEdges |-> <<>>, totals |-> EmptyTotals,
          frontierNeeds |-> EmptyMap]
    ELSE PublishedP(BfsRunP(SeededP(Baseline([nodes |-> <<>>, edges |-> <<>>], env, 1), env), env))

\* a publish that replaces nodes and edges and leaves the aggregates as they were
PublishGraphOnly(s, b) ==
    [s EXCEPT !.graphNodes = b.graphNodes, !.graphEdges = b.graphEdges]

PublishP(s, b) ==
    [s EXCEPT !.graphNodes = b.graphNodes, !.graphEdges = b.graphEdges,
              !.totals = b.totals, !.frontierNeeds = b.frontierNeeds]

\* build of the per-product store
buildP(s) == PublishP(s, BuildGraphP(s))

\* resetExpansions: () => set({ expandedByProduct: {} })
resetExpansionsP(s) == [s EXCEPT !.expandedByProduct = EmptyMap]

\* expandNodeOnce after `s.graphNodes.find(...)`: `at` is the position found, or 0
ExpandOnceAt(s, at) ==
    IF at = 0 THEN s
    ELSE buildP([s EXCEPT !.expandedByProduct =
                    Put(@, s.graphNodes[at].product, GetOr(@, s.graphNodes[at].product, 0) + 1)])

\* expandNodeOnce(nodeId) of the per-product store
expandNodeOnceP(s, nodeId) == ExpandOnceAt(s, NodeIndex(s.graphNodes, nodeId))

\* parentsByChild.get(id) || []: the sources of the edges into id, in edge order
RECURSIVE ParentsOf(_, _, _)
ParentsOf(edges, id, k) ==
    IF k > Len(edges) THEN <<>>
    ELSE (IF edges[k].target = id THEN <<edges[k].source>> ELSE <<>>)
         \o ParentsOf(edges, id, k + 1)

\* parents.forEach((p) => q.push({ id: p, rem }))
Pushed(parents, rem) == [k \in DOMAIN parents |-> [id |-> parents[k], rem |-> rem]]

\* expandBranchBy: the body of `if (rem > prev)` for node n, w = [next, best, q]
BranchImprove(s, w, id, rem, product) ==
    [ next |-> IF rem > GetOr(w.next, product, 0) THEN Put(w.next, product, rem) ELSE w.next,
      best |-> Put(w.best, id, rem),
      q    |-> IF rem - 1 > 0 THEN w.q \o Pushed(ParentsOf(s.graphEdges, id, 1), rem - 1)
               ELSE w.q ]

\* expandBranchBy: one dequeued item, `at` the position nodeById.get(id) finds
BranchVisit(s, w, item, at) ==
    IF at = 0 THEN w
    ELSE IF item.rem > GetOr(w.best, item.id, -1)
    THEN BranchImprove(s, w, item.id, item.rem, s.graphNodes[at].product)
    ELSE w

\* expandBranchBy: `while (q.length)`; yields `next`
RECURSIVE BranchWalk(_, _)
BranchWalk(s, w) ==
    IF w.q = <<>> THEN w.next
    ELSE BranchWalk(s, BranchVisit(s, [w EXCEPT !.q = Tail(@)], Head(w.q),
                                   NodeIndex(s.graphNodes, Head(w.q).id)))

\* expandBranchBy(nodeId, hops) of the per-product store
expandBranchByP(s, nodeId, hops) ==
    IF hops <= 0 THEN s
    ELSE buildP([s EXCEPT !.expandedByProduct =
                    BranchWalk(s, [next |-> @, best |-> EmptyMap,
                                   q |-> <<[id |-> nodeId, rem |-> hops]>>])])

\* an expand-all that asks for a single hop
expandBranchOne(s, nodeId) == expandBranchByP(s, nodeId, 1)

\* expandBranchAll(nodeId)
expandBranchAll(s, nodeId) == expandBranchByP(s, nodeId, 50)

\* collapseBranch: one dequeued id not seen before, `at` the position
\* nodeById.get(id) finds; w = [toZero, seen, q]
CollapseVisit(s, w, id, at) ==
    IF at = 0 THEN [w EXCEPT !.seen = @ \cup {id}]
    ELSE [ toZero |-> w.toZero \cup {s.graphNodes[at].product},
           seen   |-> w.seen \cup {id},
           q      |-> w.q \o ParentsOf(s.graphEdges, id, 1) ]

\* collapseBranch: `while (q.length)`; yields toZero
RECURSIVE CollapseWalk(_, _)
CollapseWalk(s, w) ==
    IF w.q = <<>> THEN w.toZero
    ELSE IF Head(w.q) \in w.seen THEN CollapseWalk(s, [w EXCEPT !.q = Tail(@)])
    ELSE CollapseWalk(s, CollapseVisit(s, [w EXCEPT !.q = Tail(@)], Head(w.q),
                                       NodeIndex(s.graphNodes, Head(w.q))))

\* for (const p of toZero) next[p] = 0
Zeroed(expanded, toZero) ==
    [p \in DOMAIN expanded \cup toZero |-> IF p \in toZero THEN 0 ELSE expanded[p]]

\* a collapse that zeroes the budget of the node's own product only
collapseBranchSelf(s, nodeId) ==
    buildP([s EXCEPT !.expandedByProduct =
               Zeroed(@, {s.graphNodes[k].product : k \in {j \in DOMAIN s.graphNodes : s.graphNodes[j].id = nodeId}})])

\* collapseBranch(nodeId)
collapseBranch(s, nodeId) ==
    buildP([s EXCEPT !.expandedByProduct =
               Zeroed(@, CollapseWalk(s, [toZero |-> {}, seen |-> {}, q |-> <<nodeId>>]))])

\* swapNodeRecipe after `s.graphNodes.find(...)`: `at` is the position found, or 0
SwapAtP(s, recipeId, at) ==
    IF at = 0 THEN s
    ELSE buildP(ChoiceWithBuilding(s, s.graphNodes[at].product, recipeId,
                   BuildingOf(FindById(PRODUCT_INDEX(s.graphNodes[at].product), recipeId, 1))))

\* swapNodeRecipe(nodeId, recipeId) of the per-product store
swapNodeRecipeP(s, nodeId, recipeId) == SwapAtP(s, recipeId, NodeIndex(s.graphNodes, nodeId))

\* recomputeTotals of the per-product store
recomputeTotalsP(s) ==
    [s EXCEPT !.totals = computeTotals(s.graphNodes),
              !.frontierNeeds = computeFrontierNeeds(s.graphNodes, s.graphEdges)]

\* --------------------------------- the state machine of the per-product store
\* the per-product store state held by the variables
CurP == [ targets |-> targets, choicesRecipe |-> choicesRecipe,
          choicesBuilding |-> choicesBuilding, expandedByProduct |-> expandedByProduct,
          graphNodes |-> graphNodes, graphEdges |-> graphEdges, totals |-> totals,
          frontierNeeds |-> frontierNeeds ]

\* the variables take the per-product store state s
BecomesP(s) ==
    /\ targets' = s.targets
    /\ choicesRecipe' = s.choicesRecipe
    /\ choicesBuilding' = s.choicesBuilding
    /\ expandedByProduct' = s.expandedByProduct
    /\ graphNodes' = s.graphNodes
    /\ graphEdges' = s.graphEdges
    /\ totals' = s.totals
    /\ frontierNeeds' = s.frontierNeeds
    /\ UNCHANGED <<expandedByNode, call, result>>

\* the inputs the operations of the per-product store are called with
TargetInputsP ==
    { [product |-> p, ratePerMin |-> RInt(60)] : p \in {"Cog", "Gear"} }

\* node ids handed to the operations: each may or may not be the id of a node
\* of the current graph
ExpandOnceInputsP == { "Bar::R11", "Plate::R2", "Ingot::R5" }

ExpandBranchInputsP == { <<"Bar::R11", MaxHops>>, <<"Ingot::R5", MaxHops>>, <<"Plate::R2", 0>> }

ExpandAllInputsP == { "Cog::R10", "Bar::R11", "Gear::R1" }

CollapseInputsP == { "Dust::R14", "Bar::R11", "Ingot::R5", "Rod::R4", "Plate::R3" }

SwapInputsP == { <<"Plate::R2", "R3">> }

InitP == Init

GenerateP ==
    \E t \in TargetInputsP :
        /\ ops < MaxOps
        /\ BecomesP(buildP(setTarget(CurP, t)))
        /\ lastOp' = Op("generate", t.product, "", 0, TRUE)
        /\ ops' = ops + 1

BuildP ==
    /\ ops < MaxOps
    /\ BecomesP(buildP(CurP))
    /\ lastOp' = Op("build", "", "", 0, TRUE)
    /\ ops' = ops + 1

ResetExpansionsP ==
    /\ ops < MaxOps
    /\ BecomesP(resetExpansionsP(CurP))
    /\ lastOp' = Op("resetExpansions", "", "", 0, FALSE)
    /\ ops' = ops + 1

ExpandNodeOnceP ==
    \E id \in ExpandOnceInputsP :
        /\ ops < MaxOps
        /\ BecomesP(expandNodeOnceP(CurP, id))
        /\ lastOp' = Op("expandNodeOnce", id, "", 1, NodeIndex(graphNodes, id) # 0)
        /\ ops' = ops + 1

ExpandBranchByP ==
    \E c \in ExpandBranchInputsP :
        /\ ops < MaxOps
        /\ BecomesP(expandBranchByP(CurP, c[1], c[2]))
        /\ lastOp' = Op("expandBranchBy", c[1], "", c[2], c[2] > 0)
        /\ ops' = ops + 1

ExpandBranchAllP ==
    \E id \in ExpandAllInputsP :
        /\ ops < MaxOps
        /\ BecomesP(expandBranchAll(CurP, id))
        /\ lastOp' = Op("expandBranchAll", id, "", 50, TRUE)
        /\ ops' = ops + 1

CollapseBranchP ==
    \E id \in CollapseInputsP :
        /\ ops < MaxOps
        /\ BecomesP(collapseBranch(CurP, id))
        /\ lastOp' = Op("collapseBranch", id, "", 0, TRUE)
        /\ ops' = ops + 1

SwapNodeRecipeP ==
    \E c \in SwapInputsP :
        /\ ops < MaxOps
        /\ BecomesP(swapNodeRecipeP(CurP, c[1], c[2]))
        /\ lastOp' = Op("swapNodeRecipe", c[1], c[2], 0, NodeIndex(graphNodes, c[1]) # 0)
        /\ ops' = ops + 1

NextP ==
    \/ GenerateP
    \/ BuildP
    \/ ResetExpansionsP
    \/ ExpandNodeOnceP
    \/ ExpandBranchByP
    \/ ExpandBranchAllP
    \/ CollapseBranchP
    \/ SwapNodeRecipeP

SpecP == InitP /\ [][NextP]_vars

\* ------------------------- the per-product store, one step per store update
\* Every set(...) of a handler is a step of its own, so that the states a
\* subscriber is notified of between the first set(...) of an operation and
\* the set(...) of its build() are states of the specification. `call` tells
\* whether a handler has made its first set(...) and still has to run build().
PendingBuild == [fn |-> "build"]

\* the store state after the first set(...) of a handler that ends in state
\* `after`: build() has not published yet, the graph is that of `before`
BeforePublish(before, after) ==
    [after EXCEPT !.graphNodes = before.graphNodes, !.graphEdges = before.graphEdges,
                  !.totals = before.totals, !.frontierNeeds = before.frontierNeeds]

\* the variables take the per-product store state s, the handler goes on to c
UpdateP(s, c) ==
    /\ targets' = s.targets
    /\ choicesRecipe' = s.choicesRecipe
    /\ choicesBuilding' = s.choicesBuilding
    /\ expandedByProduct' = s.expandedByProduct
    /\ graphNodes' = s.graphNodes
    /\ graphEdges' = s.graphEdges
    /\ totals' = s.totals
    /\ frontierNeeds' = s.frontierNeeds
    /\ call' = c
    /\ UNCHANGED <<expandedByNode, result>>

\* the first set(...) of a handler: none when the handler returns early
\* (`ran` is false), else the update and build() pending
FirstSet(ran, after) ==
    IF ran THEN UpdateP(BeforePublish(CurP, after), PendingBuild)
    ELSE UNCHANGED <<targets, choicesRecipe, choicesBuilding, expandedByProduct, graphNodes,
                     graphEdges, totals, frontierNeeds, call, expandedByNode, result>>

ExpandOnceInputsU == { "Bar::R11", "Plate::R2" }

ExpandAllInputsU == { "Bar::R11", "Gear::R1" }

CollapseInputsU == { "Dust::R14", "Plate::R2", "Plate::R3" }

InitU == Init

SetTargetU ==
    \E t \in TargetInputsP :
        /\ call = NoCall /\ ops < MaxOps
        /\ FirstSet(TRUE, setTarget(CurP, t))
        /\ lastOp' = Op("generate", t.product, "", 0, TRUE)
        /\ ops' = ops + 1

ExpandNodeOnceU ==
    \E id \in ExpandOnceInputsU :
        /\ call = NoCall /\ ops < MaxOps
        /\ FirstSet(NodeIndex(graphNodes, id) # 0, expandNodeOnceP(CurP, id))
        /\ lastOp' = Op("expandNodeOnce", id, "", 1, NodeIndex(graphNodes, id) # 0)
        /\ ops' = ops + 1

ExpandBranchAllU ==
    \E id \in ExpandAllInputsU :
        /\ call = NoCall /\ ops < MaxOps
        /\ FirstSet(TRUE, expandBranchAll(CurP, id))
        /\ lastOp' = Op("expandBranchAll", id, "", 50, TRUE)
        /\ ops' = ops + 1

CollapseBranchU ==
    \E id \in CollapseInputsU :
        /\ call = NoCall /\ ops < MaxOps
        /\ FirstSet(TRUE, collapseBranch(CurP, id))
        /\ lastOp' = Op("collapseBranch", id, "", 0, TRUE)
        /\ ops' = ops + 1

SwapNodeRecipeU ==
    \E c \in SwapInputsP :
        /\ call = NoCall /\ ops < MaxOps
        /\ FirstSet(NodeIndex(graphNodes, c[1]) # 0, swapNodeRecipeP(CurP, c[1], c[2]))
        /\ lastOp' = Op("swapNodeRecipe", c[1], c[2], 0, NodeIndex(graphNodes, c[1]) # 0)
        /\ ops' = ops + 1

\* the set(...) at the end of build(), for the handler that is waiting for it
PublishU ==
    /\ call = PendingBuild
    /\ UpdateP(buildP(CurP), NoCall)
    /\ UNCHANGED <<lastOp, ops>>

ResetExpansionsU ==
    /\ call = NoCall /\ ops < MaxOps
    /\ UpdateP(resetExpansionsP(CurP), NoCall)
    /\ lastOp' = Op("resetExpansions", "", "", 0, FALSE)
    /\ ops' = ops + 1

RecomputeTotalsU ==
    /\ call = NoCall /\ ops < MaxOps
    /\ UpdateP(recomputeTotalsP(CurP), NoCall)
    /\ lastOp' = Op("recomputeTotals", "", "", 0, FALSE)
    /\ ops' = ops + 1

NextU ==
    \/ SetTargetU
    \/ ExpandNodeOnceU
    \/ ExpandBranchAllU
    \/ CollapseBranchU
    \/ SwapNodeRecipeU
    \/ PublishU
    \/ ResetExpansionsU
    \/ RecomputeTotalsU

SpecU == InitU /\ [][NextU]_vars

\* ------------------------------------------------- calls of the pure helpers
\* pickRecipeWithPrefs, makeNode and build() as functions of their arguments:
\* `call` holds one call drawn from the inputs below, `result` is NoResult
\* until the call is made and holds the value returned afterwards.

\* a recipe outside the catalog for makeNode: two outputs whose names agree
\* once trimmed and lower-cased
TwinRecipe == Recipe("RX", "Mixer", 2, <<IO("Ore", 1)>>, <<IO("Gear", 1), IO(" Gear ", 2)>>)

RecipeInputs == Range(RECIPES) \cup {TwinRecipe}

ProductInputs == {"Gear", " Gear ", "gear", "Plate", "Slag", "Scrap", "Dust", "Coal"}

RateInputs == {RInt(60), Rat(7, 2), RZero}

PickProductInputs == {"Plate", "Ingot", "Gear", "gear", "Coal"}

ExplicitInputs == {NULL, "", "R2", "R3", "R5", "R6"}

BuildingInputs == {UNDEF, "Asm", "Forge", "Press"}

\* targets and budgets for build(): the one-step chain Dust <- Sand, the
\* zero-quantity product Scrap, the uncraftable Coal, Mix (made from Dust and
\* the raw Sand that Dust is made from too) and Gear
BuildTargetInputs == {"Dust", "Scrap", "Coal", "Mix", "Gear"}

BuildBudgetInputs ==
    {EmptyMap, Put(EmptyMap, "Scrap::R15", MaxHops), Put(EmptyMap, "Plate::R2", 1),
     Put(EmptyMap, "Gear::R1", MaxHops)}

PickCalls ==
    { [fn |-> "pickRecipeWithPrefs", product |-> p, explicitRecipe |-> e,
       preferredBuilding |-> b, parentBuildingPreferred |-> pb] :
        p \in PickProductInputs, e \in ExplicitInputs, b \in BuildingInputs, pb \in BuildingInputs }

MakeNodeCalls ==
    { [fn |-> "makeNode", recipe |-> r, targetProduct |-> p, requiredRatePerMin |-> q, depth |-> 0] :
        r \in RecipeInputs, p \in ProductInputs, q \in RateInputs }

BuildCalls ==
    { [fn |-> "build",
       env |-> [targets |-> <<[product |-> p, ratePerMin |-> RInt(60)]>>,
                choicesRecipe |-> EmptyMap, choicesBuilding |-> EmptyMap,
                expandedByNode |-> b]] :
        p \in BuildTargetInputs, b \in BuildBudgetInputs }

\* the store states swapNodeRecipe is called in: Gear built with two and with
\* MaxHops hops from the root, so that Ingot is there twice, as Ingot::R5
\* under Plate::R2 and as Ingot::R6 under Rod::R4
SwapStateInputs ==
    { build([targets |-> <<[product |-> "Gear", ratePerMin |-> RInt(60)]>>,
             choicesRecipe |-> EmptyMap, choicesBuilding |-> EmptyMap,
             expandedByNode |-> Put(EmptyMap, "Gear::R1", h),
             graphNodes |-> <<>>, graphEdges |-> <<>>, totals |-> EmptyTotals]) :
        h \in {2, MaxHops} }

\* (node id, recipe id): recipes of the node's product, the node's own recipe,
\* a recipe of another product, and a node that is not in the graph
SwapArgInputs ==
    { <<"Ingot::R5", "R6">>, <<"Ingot::R6", "R5">>, <<"Plate::R2", "R3">>,
      <<"Ingot::R5", "R5">>, <<"Ingot::R5", "R1">>, <<"Sheet::R8", "R8">> }

SwapCalls ==
    { [fn |-> "swapNodeRecipe", s |-> s, nodeId |-> a[1], recipeId |-> a[2]] :
        s \in SwapStateInputs, a \in SwapArgInputs }

\* the store states the expand operations are called in: Gear built with no
\* budget, with two hops and with MaxHops hops from the root
ExpandStateInputs ==
    { build([targets |-> <<[product |-> "Gear", ratePerMin |-> RInt(60)]>>,
             choicesRecipe |-> EmptyMap, choicesBuilding |-> EmptyMap,
             expandedByNode |-> b,
             graphNodes |-> <<>>, graphEdges |-> <<>>, totals |-> EmptyTotals]) :
        b \in { EmptyMap, Put(EmptyMap, "Gear::R1", 2), Put(EmptyMap, "Gear::R1", MaxHops) } }

ExpandIdInputs == { "Gear::R1", "Plate::R2", "Rod::R4", "Ingot::R6" }

ExpandOnceCalls ==
    { [fn |-> "expandNodeOnce", s |-> s, nodeId |-> id] :
        s \in ExpandStateInputs, id \in ExpandIdInputs }

ExpandBranchCalls ==
    { [fn |-> "expandBranchBy", s |-> s, nodeId |-> id, hops |-> h] :
        s \in ExpandStateInputs, id \in ExpandIdInputs, h \in {0, 2, MaxHops} }

InitFn ==
    /\ targets = <<>>
    /\ choicesRecipe = EmptyMap
    /\ choicesBuilding = EmptyMap
    /\ expandedByNode = EmptyMap
    /\ graphNodes = <<>>
    /\ graphEdges = <<>>
    /\ totals = EmptyTotals
    /\ lastOp = Op("init", "", "", 0, FALSE)
    /\ ops = 0
    /\ expandedByProduct = EmptyMap
    /\ frontierNeeds = EmptyMap
    /\ call \in PickCalls \cup MakeNodeCalls \cup BuildCalls \cup SwapCalls
                 \cup ExpandOnceCalls \cup ExpandBranchCalls
    /\ result = NoResult

\* the value returned is stored; nothing of the store is touched
Returns(v) ==
    /\ ~result.done
    /\ result' = [done |-> TRUE, value |-> v]
    /\ UNCHANGED <<targets, choicesRecipe, choicesBuilding, expandedByNode, graphNodes,
                   graphEdges, totals, lastOp, ops, expandedByProduct, frontierNeeds, call>>

CallPickRecipe ==
    /\ call.fn = "pickRecipeWithPrefs"
    /\ Returns(pickRecipeWithPrefs(call.product, call.explicitRecipe, call.preferredBuilding,
                                   call.parentBuildingPreferred))

CallMakeNode ==
    /\ call.fn = "makeNode"
    /\ Returns(makeNode(call.recipe, call.targetProduct, call.requiredRatePerMin, call.depth))

CallBuild ==
    /\ call.fn = "build"
    /\ Returns(BuildGraph(call.env))

CallSwapNodeRecipe ==
    /\ call.fn = "swapNodeRecipe"
    /\ Returns(swapNodeRecipe(call.s, call.nodeId, call.recipeId))

CallExpandNodeOnce ==
    /\ call.fn = "expandNodeOnce"
    /\ Returns(expandNodeOnce(call.s, call.nodeId))

CallExpandBranchBy ==
    /\ call.fn = "expandBranchBy"
    /\ Returns(expandBranchBy(call.s, call.nodeId, call.hops))

NextFn ==
    \/ CallPickRecipe
    \/ CallMakeNode
    \/ CallBuild
    \/ CallSwapNodeRecipe
    \/ CallExpandNodeOnce
    \/ CallExpandBranchBy

SpecFn == InitFn /\ [][NextFn]_vars

\* ------------------------------------- build(), one loop iteration per step
\* The expansion loop of build() taken one step at a time: `call` holds the
\* store state build() reads, `result.st` the local nodes, edges, bestRem and
\* queue, starting with the baseline built and the queue seeded, and
\* `result.cur` the item dequeued and the input of its node the inner loop
\* has come to. When the queue is empty build() publishes and is done.
BfsTargetInputs == {"Gear", "Alpha", "Cog", "Rod"}

\* budget maps: none, one on a root, one on a root and one on a node two
\* levels down, budgets on both nodes of the cycle Alpha <-> Beta, budgets
\* on the two children of Gear, and budgets on Rod and on Ingot::R6, the
\* node that consumes its own product
BfsBudgetInputs ==
    { EmptyMap,
      Put(EmptyMap, "Gear::R1", MaxHops),
      Put(Put(EmptyMap, "Gear::R1", 2), "Ingot::R5", 2),
      Put(Put(EmptyMap, "Alpha::R17", MaxBudget), "Beta::R18", 1),
      Put(Put(EmptyMap, "Plate::R2", 1), "Rod::R4", MaxHops),
      Put(EmptyMap, "Cog::R10", 2),
      Put(Put(EmptyMap, "Rod::R4", 2), "Ingot::R6", MaxBudget) }

BfsCalls ==
    { [fn |-> "bfs",
       env |-> [targets |-> <<[product |-> p, ratePerMin |-> RInt(60)]>>,
                choicesRecipe |-> EmptyMap, choicesBuilding |-> EmptyMap,
                expandedByNode |-> b]] :
        p \in BfsTargetInputs, b \in BfsBudgetInputs }

\* build() up to the start of `while (queue.length)`
BfsStart(env) == Seeded(Baseline([nodes |-> <<>>, edges |-> <<>>], env, 1), env)

\* no item is being processed: the loop is at `while (queue.length)`
NoItem == [parent |-> 0, effParent |-> 0, k |-> 0]

InitB ==
    /\ targets = <<>>
    /\ choicesRecipe = EmptyMap
    /\ choicesBuilding = EmptyMap
    /\ expandedByNode = EmptyMap
    /\ graphNodes = <<>>
    /\ graphEdges = <<>>
    /\ totals = EmptyTotals
    /\ lastOp = Op("init", "", "", 0, FALSE)
    /\ ops = 0
    /\ expandedByProduct = EmptyMap
    /\ frontierNeeds = EmptyMap
    /\ call \in BfsCalls
    /\ result = [done |-> FALSE, st |-> BfsStart(call.env), cur |-> NoItem]

\* the local state of build() becomes r; the store is not touched before set()
Local(r) ==
    /\ result' = r
    /\ UNCHANGED <<targets, choicesRecipe, choicesBuilding, expandedByNode, graphNodes,
                   graphEdges, totals, lastOp, ops, expandedByProduct, frontierNeeds, call>>

\* `const { id, rem } = queue.shift()`, the two `continue`s and effParent:
\* the item to process after the head of the queue is taken, parent the
\* position byId.get(id) finds
Dequeued(st, env, item, parent) ==
    IF item.rem <= 0 \/ parent = 0 THEN NoItem
    ELSE [parent |-> parent,
          effParent |-> Max(item.rem, GetOr(env.expandedByNode, st.nodes[parent].id, 0)),
          k |-> 1]

BfsDequeue ==
    /\ ~result.done
    /\ result.cur = NoItem
    /\ result.st.queue # <<>>
    /\ Local([done |-> FALSE,
              st |-> [result.st EXCEPT !.queue = Tail(@)],
              cur |-> Dequeued(result.st, call.env, Head(result.st.queue),
                               NodeIndex(result.st.nodes, Head(result.st.queue).id))])

\* one pass of `for (const i of parent.inputs)`: a raw input is skipped
BfsSkipRaw ==
    /\ ~result.done
    /\ result.cur # NoItem
    /\ result.cur.k <= Len(result.st.nodes[result.cur.parent].inputs)
    /\ ~Craftable(result.st.nodes[result.cur.parent].inputs[result.cur.k].name)
    /\ Local([result EXCEPT !.cur.k = @ + 1])

\* one pass of `for (const i of parent.inputs)`: ensureNode, connect, relax
BfsInput ==
    /\ ~result.done
    /\ result.cur # NoItem
    /\ result.cur.k <= Len(result.st.nodes[result.cur.parent].inputs)
    /\ Craftable(result.st.nodes[result.cur.parent].inputs[result.cur.k].name)
    /\ Local([done |-> FALSE,
              st |-> BfsChild(result.st, call.env, result.st.nodes[result.cur.parent],
                              result.cur.effParent,
                              result.st.nodes[result.cur.parent].inputs[result.cur.k].name,
                              ensureNode([nodes |-> result.st.nodes, edges |-> result.st.edges],
                                         call.env,
                                         result.st.nodes[result.cur.parent].inputs[result.cur.k].name,
                                         result.st.nodes[result.cur.parent].inputs[result.cur.k].ratePerMin,
                                         result.st.nodes[result.cur.parent].depth + 1,
                                         result.st.nodes[result.cur.parent].building)),
              cur |-> [result.cur EXCEPT !.k = @ + 1]])

\* the inner loop is through: back to `while (queue.length)`
BfsNextItem ==
    /\ ~result.done
    /\ result.cur # NoItem
    /\ result.cur.k > Len(result.st.nodes[result.cur.parent].inputs)
    /\ Local([result EXCEPT !.cur = NoItem])

\* the loop is left and build() hands the graph to set()
BfsFinish ==
    /\ ~result.done
    /\ result.cur = NoItem
    /\ result.st.queue = <<>>
    /\ Local([done |-> TRUE, st |-> result.st, cur |-> NoItem, value |-> Published(result.st)])

NextB ==
    \/ BfsDequeue
    \/ BfsSkipRaw
    \/ BfsInput
    \/ BfsNextItem
    \/ BfsFinish

\* the guard of BfsInput; BfsInput moves result.cur.k on, so the guard is
\* ENABLED <<BfsInput>>_vars
AtCraftableInput ==
    /\ ~result.done
    /\ result.cur # NoItem
    /\ result.cur.k <= Len(result.st.nodes[result.cur.parent].inputs)
    /\ Craftable(result.st.nodes[result.cur.parent].inputs[result.cur.k].name)

\* build() is synchronous code: once called it runs on until it returns, so
\* every step is taken when it is its turn. The last conjunct is
\* WF_vars(BfsInput) with ENABLED <<BfsInput>>_vars written as its guard.
SpecB ==
    /\ InitB
    /\ [][NextB]_vars
    /\ WF_vars(BfsDequeue)
    /\ WF_vars(BfsSkipRaw)
    /\ WF_vars(BfsNextItem)
    /\ WF_vars(BfsFinish)
    /\ ([]<>(~AtCraftableInput) \/ []<><<BfsInput>>_vars)

\* ------------------------------------------------------------ properties
\* the published graph
Graph == <<graphNodes, graphEdges, totals>>

\* the ids of the nodes of a graph
NodeIds(nodes) == {n.id : n \in Range(nodes)}

\* what build() publishes for the store state s once its budgets are dropped
BudgetFree(s) == BuildGraph([s EXCEPT !.expandedByNode = EmptyMap])

\* nodes and edges hold a root for target t and, for every input of the root
\* that some recipe produces, a node of that product and an edge from the
\* root to it labelled with the input's name
HasBaselineOf(nodes, edges, t) ==
    \E root \in Range(nodes) :
        /\ root.product = t.product
        /\ root.depth = 0
        /\ \A i \in Range(root.inputs) :
              Craftable(i.name) =>
                 \E c \in Range(nodes), e \in Range(edges) :
                    /\ c.product = i.name
                    /\ e.source = root.id
                    /\ e.target = c.id
                    /\ e.label = i.name

\* the sequence `whole` begins with the sequence `part`
StartsWith(whole, part) ==
    Len(part) <= Len(whole) /\ SubSeq(whole, 1, Len(part)) = part

\* the graph of store state s begins with base, nodes and edges
Extends(s, base) ==
    StartsWith(s.graphNodes, base.graphNodes) /\ StartsWith(s.graphEdges, base.graphEdges)

\* C1: whatever the budgets, the graph build() produces holds the root of every
\* target some recipe produces and, for every craftable input of that root, a
\* node for the input and an edge root -> child labelled with the input's name;
\* the graph built without any budget is the leading part of the graph built.
C1_BaselineAlwaysPresent ==
    lastOp.built =>
        /\ \A t \in Range(targets) :
              Craftable(t.product) => HasBaselineOf(graphNodes, graphEdges, t)
        /\ Extends(Cur, BudgetFree(Cur))

\* a graph built for target Gear under stored budgets that reveal more than
\* the baseline
C1_Witness ==
    /\ lastOp.built
    /\ targets # <<>>
    /\ targets[1].product = "Gear"
    /\ BudgetSum(expandedByNode) >= 2
    /\ Len(graphNodes) > Len(BudgetFree(Cur).graphNodes)
    /\ Cardinality({e \in Range(graphEdges) : e.source = graphNodes[1].id}) >= 2

\* C2: every node's id is product::recipeId of its own product and recipe, and
\* no two nodes of a graph share an id: two paths that need the same product
\* through the same recipe meet in one node.
C2_NodeIdentity ==
    \A k \in DOMAIN graphNodes :
        /\ graphNodes[k].id = nodeIdFor(graphNodes[k].product, graphNodes[k].recipeId)
        /\ \A j \in DOMAIN graphNodes : j # k => graphNodes[j].id # graphNodes[k].id

\* a node reached from two different parents
C2_Witness ==
    \E e1 \in Range(graphEdges), e2 \in Range(graphEdges) :
        /\ e1.target = e2.target
        /\ e1.source # e2.source
        /\ e1.source # e1.target
        /\ e2.source # e2.target
        /\ Cardinality({k \in DOMAIN graphNodes : graphNodes[k].id = e1.target}) = 1

\* C3: no two edges of a graph share the same (source, target) pair.
C3_NoDuplicateEdges ==
    \A i \in DOMAIN graphEdges, j \in DOMAIN graphEdges :
        i # j => <<graphEdges[i].source, graphEdges[i].target>>
                    # <<graphEdges[j].source, graphEdges[j].target>>

\* the published graph of store state s is what build() yields for s
InSync(s) == build(s) = s

\* the last call was op
Called(op) == lastOp.op = op

\* C4 as stated: after every completed expandNodeOnce, expandBranchBy,
\* swapNodeRecipe, resetExpansions, setChoiceRecipe, setChoiceBuilding and
\* setTarget the published graph is what build() yields for the current
\* targets, preferences and budgets.
C4_EveryOperationRebuilds ==
    lastOp.op \in {"expandNodeOnce", "expandBranchBy", "swapNodeRecipe", "resetExpansions",
                   "setChoiceRecipe", "setChoiceBuilding", "setTarget"}
        => InSync(Cur)

\* C4, amended: after build(), expandNodeOnce, expandBranchBy, and
\* swapNodeRecipe of a node of the published graph, the published graph is what
\* build() yields for the current targets, preferences and budgets, whatever
\* the calls before; setTarget, setChoiceRecipe, setChoiceBuilding,
\* resetExpansions, and swapNodeRecipe of an id the graph does not hold, leave
\* the published graph as it was.
C4_RebuildingOperations ==
    [][ /\ ( \/ lastOp'.op \in {"build", "generate", "expandNodeOnce", "expandBranchBy"}
             \/ lastOp'.op = "swapNodeRecipe" /\ NodeIndex(graphNodes, lastOp'.id) # 0 )
           => InSync(Cur')
        /\ ( \/ lastOp'.op \in {"setTarget", "setChoiceRecipe", "setChoiceBuilding",
                                "resetExpansions"}
             \/ lastOp'.op = "swapNodeRecipe" /\ NodeIndex(graphNodes, lastOp'.id) = 0 )
           => Graph' = Graph ]_vars

\* an expansion made after a recipe was chosen: the graph shown follows both
C4_Witness ==
    /\ Called("expandNodeOnce")
    /\ choicesRecipe # EmptyMap
    /\ Len(graphNodes) > 3
    /\ InSync(Cur)

\* C5: for a node n of the graph with stored budget b and a recipe id r, after
\* swapNodeRecipe(n.id, r) the budget stored under n.product::r is the larger of
\* b and what was stored there before, and no budget is left under the old id
\* when the two ids differ.
C5_SwapMovesBudget ==
    [][ (lastOp'.op = "swapNodeRecipe" /\ NodeIndex(graphNodes, lastOp'.id) # 0) =>
          /\ GetOr(expandedByNode',
                   nodeIdFor(graphNodes[NodeIndex(graphNodes, lastOp'.id)].product, lastOp'.arg),
                   0)
               = Max(GetOr(expandedByNode, lastOp'.id, 0),
                     GetOr(expandedByNode,
                           nodeIdFor(graphNodes[NodeIndex(graphNodes, lastOp'.id)].product,
                                     lastOp'.arg),
                           0))
          /\ nodeIdFor(graphNodes[NodeIndex(graphNodes, lastOp'.id)].product, lastOp'.arg)
                 # lastOp'.id
               => lastOp'.id \notin DOMAIN expandedByNode' ]_vars

\* the ids of the recipes that produce `product`
ProducersOf(product) == {RECIPES[PRODUCT_INDEX(product)[k]].recipeId :
                            k \in DOMAIN PRODUCT_INDEX(product)}

\* node n swapped to recipe `other` and then back to its own recipe
RoundTrip(s, n, other) ==
    swapNodeRecipe(swapNodeRecipe(s, n.id, other), nodeIdFor(n.product, other), n.recipeId)

\* store state `after` shows a node with n's id and stores at least b under it
Restored(after, n, b) ==
    /\ n.id \in NodeIds(after.graphNodes)
    /\ GetOr(after.expandedByNode, n.id, 0) >= b

\* every node of the graph of s comes back, budget included, from a swap to
\* any other recipe of its product and back
RoundTripRestores(s) ==
    \A n \in Range(s.graphNodes) :
        \A other \in ProducersOf(n.product) \ {n.recipeId} :
            Restored(RoundTrip(s, n, other), n, GetOr(s.expandedByNode, n.id, 0))

\* C6 as stated: for a node of the published graph with id P::r1 and stored
\* budget b, swapNodeRecipe to another recipe r2 of P and then back to r1
\* yields a graph with a node P::r1 whose stored budget is at least b.
C6_RoundTripAnyState == RoundTripRestores(Cur)

\* C6, amended: when the published graph is what build() yields for the
\* current targets, preferences and budgets, swapping a node P::r1 with
\* stored budget b to another recipe r2 of P and back to r1 yields a graph
\* with a node P::r1 whose stored budget is at least b.
C6_RoundTripInSync == InSync(Cur) => RoundTripRestores(Cur)

\* a swap back to R2 of a Plate node that carries a budget, after which the
\* graph shows Plate::R2 again with the budget
C6_Witness ==
    /\ Called("swapNodeRecipe")
    /\ lastOp.built
    /\ lastOp.id = "Plate::R3"
    /\ lastOp.arg = "R2"
    /\ "Plate::R2" \in NodeIds(graphNodes)
    /\ GetOr(expandedByNode, "Plate::R2", 0) >= 1
    /\ InSync(Cur)

\* k calls of expandNodeOnce on the same node
RECURSIVE ExpandTimes(_, _, _)
ExpandTimes(s, nodeId, k) ==
    IF k = 0 THEN s ELSE ExpandTimes(expandNodeOnce(s, nodeId), nodeId, k - 1)

\* the graph of store state b holds every node and edge of the graph of a
Covers(b, a) ==
    /\ Range(a.graphNodes) \subseteq Range(b.graphNodes)
    /\ Range(a.graphEdges) \subseteq Range(b.graphEdges)

\* C7: from any state, whatever budgets it stores, and any node n of its
\* graph, the graph after expandBranchBy(n, 3) holds every node and edge of the
\* graph after three expandNodeOnce(n) from the same state: asking for more
\* depth never reveals less. (Stated for every hops >= 3 the calls are made
\* with, against hops calls of expandNodeOnce.)
C7_BranchByCoversRepeatedOnce ==
    [][ ( /\ lastOp'.op = "expandBranchBy"
          /\ lastOp'.hops >= 3
          /\ NodeIndex(graphNodes, lastOp'.id) # 0 )
        => Covers(Cur', ExpandTimes(Cur, lastOp'.id, lastOp'.hops)) ]_vars

\* expandBranchBy(n, 3) on a node of the graph that already had a budget,
\* revealing the chain down to depth 4
C7_Witness ==
    /\ Called("expandBranchBy")
    /\ lastOp.hops = 3
    /\ lastOp.id \in NodeIds(graphNodes)
    /\ GetOr(expandedByNode, lastOp.id, 0) > 3
    /\ \E n \in Range(graphNodes) : n.depth >= 4

\* between store states s and s2 the budget of nodeId grew by exactly `by`,
\* and every other budget, the targets and the preferences are the same
BudgetGrew(s, s2, nodeId, by) ==
    /\ DOMAIN s2.expandedByNode = DOMAIN s.expandedByNode \cup {nodeId}
    /\ s2.expandedByNode[nodeId] = GetOr(s.expandedByNode, nodeId, 0) + by
    /\ \A k \in DOMAIN s.expandedByNode \ {nodeId} : s2.expandedByNode[k] = s.expandedByNode[k]
    /\ s2.targets = s.targets
    /\ s2.choicesRecipe = s.choicesRecipe
    /\ s2.choicesBuilding = s.choicesBuilding

\* C8: expandBranchBy(n, hops) raises the stored budget of n by exactly
\* max(1, hops), hops zero and negative included, and expandNodeOnce(n) by
\* exactly 1; every other budget, the targets and the preferences stay.
C8_ExpandAddsExactly ==
    [][ /\ lastOp'.op = "expandBranchBy"
           => BudgetGrew(Cur, Cur', lastOp'.id, IF lastOp'.hops > 1 THEN lastOp'.hops ELSE 1)
        /\ lastOp'.op = "expandNodeOnce"
           => BudgetGrew(Cur, Cur', lastOp'.id, 1) ]_vars

\* expandBranchBy with negative hops on a node that had a budget, beside
\* another stored budget
C8_Witness ==
    /\ Called("expandBranchBy")
    /\ lastOp.hops < 0
    /\ GetOr(expandedByNode, lastOp.id, 0) >= 2
    /\ Cardinality(DOMAIN expandedByNode) >= 2

\* nodes and edges are the baseline for the targets of s: every target root,
\* one node per craftable root input, and only root -> child edges
PhaseOneOnly(s, nodes, edges) ==
    /\ \A t \in Range(s.targets) : Craftable(t.product) => HasBaselineOf(nodes, edges, t)
    /\ \A n \in Range(nodes) :
          \/ n.depth = 0 /\ \E t \in Range(s.targets) : t.product = n.product
          \/ \E root \in Range(nodes) :
                /\ root.depth = 0
                /\ \E i \in Range(root.inputs) : i.name = n.product /\ Craftable(i.name)
    /\ \A n \in Range(nodes), m \in Range(nodes) : n.product = m.product => n = m
    /\ \A e \in Range(edges) :
          \E root \in Range(nodes) :
             /\ root.depth = 0
             /\ e.source = root.id
             /\ \E t \in Range(s.targets) : t.product = root.product

C10_UnknownIdChangesNothing ==
    [][ ( /\ lastOp'.op \in {"expandNodeOnce", "expandBranchBy", "swapNodeRecipe"}
          /\ NodeIndex(graphNodes, lastOp'.id) = 0 )
        => UNCHANGED <<targets, choicesRecipe, choicesBuilding, expandedByNode,
                       graphNodes, graphEdges, totals>> ]_vars


\* the nodes from which a node of S is reachable along the edges, S included
RECURSIVE AncestorsOf(_, _)
AncestorsOf(edges, S) ==
    IF {e.source : e \in {x \in Range(edges) : x.target \in S}} \subseteq S THEN S
    ELSE AncestorsOf(edges, S \cup {e.source : e \in {x \in Range(edges) : x.target \in S}})

\* the products of the nodes whose id is in ids
ProductsOf(nodes, ids) == {n.product : n \in {x \in Range(nodes) : x.id \in ids}}

\* map `after` is map `before` with exactly the keys of `zero` set to 0
ZeroedExactly(before, after, zero) ==
    /\ DOMAIN after = DOMAIN before \cup zero
    /\ \A p \in zero : after[p] = 0
    /\ \A p \in DOMAIN before \ zero : after[p] = before[p]

\* C11: after collapseBranch(n) on a visible node n the stored budget of n and
\* of every ancestor of n along the current edges is 0, every other stored
\* budget is unchanged, and targets and preferences are unchanged
C11_CollapseZeroesAncestors ==
    [][(lastOp'.op = "collapseBranch" /\ NodeIndex(graphNodes, lastOp'.id) # 0)
        => /\ ZeroedExactly(expandedByProduct, expandedByProduct',
                            ProductsOf(graphNodes, AncestorsOf(graphEdges, {lastOp'.id})))
           /\ targets' = targets
           /\ choicesRecipe' = choicesRecipe
           /\ choicesBuilding' = choicesBuilding]_vars

\* a collapse of a visible node zeroed the budget of an ancestor's product and
\* left a positive budget of another product alone
C11_Witness ==
    /\ lastOp.op = "collapseBranch"
    /\ NodeIndex(graphNodes, lastOp.id) # 0
    /\ \E p \in DOMAIN expandedByProduct :
          /\ expandedByProduct[p] = 0
          /\ p \notin ProductsOf(graphNodes, {lastOp.id})
    /\ \E q \in DOMAIN expandedByProduct : expandedByProduct[q] > 0

\* the linear chain of the catalog: Cog <- Bar <- Billet <- Lump <- Dust <- Sand,
\* each product made by one recipe from one input, the last from a raw one
ChainTop == "Cog"

ChainIds == {"Cog::R10", "Bar::R11", "Billet::R12", "Lump::R13", "Dust::R14"}

\* what the per-product build() publishes for s once its budgets are dropped
BudgetFreeP(s) == BuildGraphP([s EXCEPT !.expandedByProduct = EmptyMap])

\* the store holds the chain's top product as its target and shows exactly the
\* baseline graph (the root and its direct child)
AtChainBaseline(s, base) ==
    /\ Len(s.targets) = 1
    /\ s.targets[1].product = ChainTop
    /\ s.graphNodes = base.graphNodes
    /\ s.graphEdges = base.graphEdges
    /\ Len(s.graphNodes) = 2

\* the id of the visible node deepest in the chain
DeepestId(nodes) ==
    (CHOOSE n \in Range(nodes) : \A x \in Range(nodes) : x.depth <= n.depth).id

\* c is the store after collapseBranch(n): the stored budget of every ancestor
\* of n in the graph (nodes, edges) is 0 and the graph is that of `base`
CollapsedToBaseline(c, nodes, edges, n, base) ==
    /\ \A p \in ProductsOf(nodes, AncestorsOf(edges, {n})) :
          p \in DOMAIN c.expandedByProduct /\ c.expandedByProduct[p] = 0
    /\ c.graphNodes = base.graphNodes
    /\ c.graphEdges = base.graphEdges

\* C12: on the linear chain of depth 5, from the baseline graph of the top
\* product, expandBranchAll on a visible node makes every level of the chain
\* visible; collapseBranch on the deepest visible node then zeroes the budgets
\* of all its ancestors and the rebuilt graph is exactly the baseline again
C12_ExpandAllThenCollapse ==
    [][/\ (/\ lastOp'.op = "expandBranchAll"
           /\ AtChainBaseline(CurP, BudgetFreeP(CurP))
           /\ NodeIndex(graphNodes, lastOp'.id) # 0)
          => /\ NodeIds(graphNodes') = ChainIds
             /\ Len(graphNodes') = Cardinality(ChainIds)
             /\ CollapsedToBaseline(collapseBranch(CurP', DeepestId(graphNodes')),
                                    graphNodes', graphEdges', DeepestId(graphNodes'), CurP)
       /\ (/\ lastOp'.op = "collapseBranch"
           /\ lastOp.op = "expandBranchAll"
           /\ Len(targets) = 1 /\ targets[1].product = ChainTop
           /\ NodeIds(graphNodes) = ChainIds
           /\ lastOp'.id = DeepestId(graphNodes))
          => CollapsedToBaseline(CurP', graphNodes, graphEdges, lastOp'.id, BudgetFreeP(CurP))
      ]_vars

\* the chain was fully expanded and then collapsed from its deepest node: the
\* graph is back to root and child, with a zero budget stored for every level
C12_Witness ==
    /\ lastOp.op = "collapseBranch"
    /\ lastOp.id = "Dust::R14"
    /\ Len(targets) = 1 /\ targets[1].product = ChainTop
    /\ NodeIds(graphNodes) = {"Cog::R10", "Bar::R11"}
    /\ {"Cog", "Bar", "Billet", "Lump", "Dust"} \subseteq DOMAIN expandedByProduct
    /\ \A p \in DOMAIN expandedByProduct : expandedByProduct[p] = 0

\* the store state s with nothing published: only targets, preferences and
\* budgets are left of it
Blank(s) == [s EXCEPT !.graphNodes = <<>>, !.graphEdges = <<>>, !.totals = EmptyTotals]

\* C13: the graph a call that runs build() publishes is the one build() yields
\* from the targets, preferences and budgets alone, with nothing published
\* before; a second build() on the unchanged state yields the identical node
\* and edge lists, and build() on a state already showing its graph changes
\* nothing
C13_BuildDependsOnStateOnly ==
    [][ lastOp'.built =>
          /\ Cur' = build(Blank(Cur'))
          /\ build(Cur') = Cur'
          /\ (lastOp'.op = "build" /\ lastOp.built) =>
                (graphNodes' = graphNodes /\ graphEdges' = graphEdges /\ totals' = totals)
      ]_vars

\* build() was called right after a call that had built an expanded graph
C13_Witness ==
    /\ lastOp.op = "build"
    /\ expandedByNode # EmptyMap
    /\ Len(graphNodes) > 3
    /\ Len(graphEdges) > 3
    /\ ops >= 3

\* the catalog rows (as RECIPES indices, in catalog order) with an output
\* whose trimmed name is `product`
Producing(product) ==
    {r \in DOMAIN RECIPES : \E o \in Range(RECIPES[r].outputs) : Trim(o.name) = product}

\* the least index of a non-empty set of RECIPES indices
Least(S) == CHOOSE r \in S : \A x \in S : r <= x

\* the recipe the resolution order names, 0 for none
Resolved(product, explicit, preferred, parent) ==
    IF Truthy(explicit) /\ \E r \in Producing(product) : RECIPES[r].recipeId = explicit
    THEN Least({r \in Producing(product) : RECIPES[r].recipeId = explicit})
    ELSE IF Truthy(parent) /\ \E r \in Producing(product) : RECIPES[r].building = parent
    THEN Least({r \in Producing(product) : RECIPES[r].building = parent})
    ELSE IF Truthy(preferred) /\ \E r \in Producing(product) : RECIPES[r].building = preferred
    THEN Least({r \in Producing(product) : RECIPES[r].building = preferred})
    ELSE IF Producing(product) = {} THEN 0
    ELSE Least(Producing(product))

\* C14: pickRecipe returns the recipe named explicitRecipeId if the product's
\* list holds it, else the first of the list made in parentBuilding, else the
\* first made in preferredBuilding, else the first of the list; it returns
\* undefined exactly when no recipe produces the product, and what it returns
\* is always a recipe producing the product
C14_PickRecipePriority ==
    (call.fn = "pickRecipeWithPrefs" /\ result.done) =>
        /\ result.value = Resolved(call.product, call.explicitRecipe, call.preferredBuilding,
                                   call.parentBuildingPreferred)
        /\ (result.value = 0) <=> (Producing(call.product) = {})
        /\ result.value # 0 => result.value \in Producing(call.product)

\* the explicit recipe does not make the product, the parent's building and
\* the preferred building name different recipes of it: the parent's wins
C14_Witness ==
    /\ call.fn = "pickRecipeWithPrefs" /\ result.done
    /\ call.product = "Plate"
    /\ call.explicitRecipe = "R5"
    /\ call.parentBuildingPreferred = "Forge"
    /\ call.preferredBuilding = "Asm"
    /\ RECIPES[result.value].recipeId = "R3"

\* C15: every node of the published graph has a product some recipe produces;
\* no edge is labelled with, and no node stands for, an input that no recipe
\* produces, whatever the budgets; and the graph built for a target no recipe
\* produces is empty
C15_RawIsTerminal ==
    /\ \A n \in Range(graphNodes) : Producing(n.product) # {}
    /\ \A e \in Range(graphEdges) : Producing(e.label) # {}
    /\ \A e \in Range(graphEdges) :
          \E n \in Range(graphNodes) : n.id = e.target /\ Producing(n.product) # {}
    /\ (lastOp.built /\ Len(targets) = 1 /\ Producing(targets[1].product) = {})
          => (graphNodes = <<>> /\ graphEdges = <<>>)

\* a budget reached a node with a raw and a craftable input: the craftable one
\* got its child, the raw one did not
C15_Witness ==
    /\ lastOp.built
    /\ \E n \in Range(graphNodes) :
          /\ \E i \in Range(n.inputs) : Producing(i.name) = {}
          /\ \E e \in Range(graphEdges) : e.source = n.id
          /\ n.depth >= 2
    /\ BudgetSum(expandedByNode) >= 2

\* the positions of the outputs of `recipe` matching `product` once both names
\* are trimmed and lower-cased
Matching(recipe, product) ==
    {k \in DOMAIN recipe.outputs : ToLower(Trim(recipe.outputs[k].name)) = ToLower(Trim(product))}

\* qtyPerCycle of the first output of `recipe` matching `product`, 0 for none
QtyOf(recipe, product) ==
    IF Matching(recipe, product) = {} THEN 0
    ELSE recipe.outputs[Least(Matching(recipe, product))].qtyPerCycle

\* node n carries the rates of `runs` crafts per minute of `recipe`
ScaledBy(n, recipe, runs) ==
    /\ n.runsPerMin = runs
    /\ Len(n.inputs) = Len(recipe.inputs)
    /\ \A k \in DOMAIN recipe.inputs :
          n.inputs[k] = [name |-> recipe.inputs[k].name,
                         ratePerMin |-> Rat(runs[1] * recipe.inputs[k].qtyPerCycle, runs[2])]
    /\ Len(n.outputs) = Len(recipe.outputs)
    /\ \A k \in DOMAIN recipe.outputs :
          /\ n.outputs[k].name = recipe.outputs[k].name
          /\ n.outputs[k].ratePerMin =
                Rat(runs[1] * recipe.outputs[k].qtyPerCycle * 60, runs[2] * recipe.timeSec)

\* C16: a node made from recipe R for product p at rate q, p an output of R
\* made in a positive quantity, has runsPerMin = q / ((qtyPerCycle_p / timeSec)
\* * 60), every input at runsPerMin * qtyPerCycle and every output at
\* runsPerMin * (qtyPerCycle / timeSec) * 60; the graph built for 60 Dust per
\* minute (1 Dust per 2 s from 2 Sand, Sand raw) has a root of 2 runs per
\* minute drawing 4 Sand, and totals.raw = {Sand: 4}
C16_RateArithmetic ==
    /\ (call.fn = "makeNode" /\ result.done /\ QtyOf(call.recipe, call.targetProduct) > 0)
          => ScaledBy(result.value, call.recipe,
                      Rat(call.requiredRatePerMin[1] * call.recipe.timeSec,
                          call.requiredRatePerMin[2] * QtyOf(call.recipe, call.targetProduct) * 60))
    /\ (call.fn = "build" /\ result.done /\ call.env.targets[1].product = "Dust")
          => /\ Len(result.value.graphNodes) = 1
             /\ result.value.graphNodes[1].id = "Dust::R14"
             /\ result.value.graphNodes[1].runsPerMin = RInt(2)
             /\ result.value.graphNodes[1].inputs = <<[name |-> "Sand", ratePerMin |-> RInt(4)]>>
             /\ result.value.totals.raw = Put(EmptyMap, "Sand", RInt(4))

\* a fractional case: 7/2 Plate per minute by the Forge recipe (1 Plate and 1
\* Slag per 2 s from 2 Ingot) takes 7/60 runs per minute
C16_Witness ==
    /\ call.fn = "makeNode" /\ result.done
    /\ call.recipe.recipeId = "R3"
    /\ call.targetProduct = "Plate"
    /\ call.requiredRatePerMin = Rat(7, 2)
    /\ result.value.runsPerMin = Rat(7, 60)
    /\ result.value.inputs[1].ratePerMin = Rat(7, 30)
    /\ result.value.outputs[2].ratePerMin = Rat(7, 2)

\* the positions of the outputs of node n flagged isTarget
Flagged(n) == {k \in DOMAIN n.outputs : n.outputs[k].isTarget}

\* C17: for every recipe R, every product p matching one of R's outputs once
\* trimmed and lower-cased, and every rate r > 0, the node makeNode(R, p, r)
\* returns has exactly one output flagged isTarget, and that output's
\* ratePerMin is r
C17_OneTargetAtRate ==
    (/\ call.fn = "makeNode" /\ result.done
     /\ Matching(call.recipe, call.targetProduct) # {}
     /\ call.requiredRatePerMin # RZero)
        => /\ Cardinality(Flagged(result.value)) = 1
           /\ \A k \in Flagged(result.value) :
                 result.value.outputs[k].ratePerMin = call.requiredRatePerMin

\* node n runs zero times: no runs, and every input and output at rate 0
Idle(n) ==
    /\ n.runsPerMin = RZero
    /\ \A i \in Range(n.inputs) : i.ratePerMin = RZero
    /\ \A o \in Range(n.outputs) : o.ratePerMin = RZero

\* C18: when the recipe's output rate for the node's product is 0 (no output
\* matches, or the matching output has qtyPerCycle 0) the node has runsPerMin
\* 0 and all its input and output rates are 0; in the graph built for such a
\* target every node below it, each first made as a child at the rate its
\* parent asks for, has runsPerMin 0 as well, and build() returns a graph
C18_ZeroRateClamped ==
    /\ (call.fn = "makeNode" /\ result.done /\ QtyOf(call.recipe, call.targetProduct) = 0)
          => Idle(result.value)
    /\ (call.fn = "build" /\ result.done /\ call.env.targets[1].product = "Scrap")
          => /\ Len(result.value.graphNodes) >= 2
             /\ result.value.graphNodes[1].id = "Scrap::R15"
             /\ \A n \in Range(result.value.graphNodes) : Idle(n)
             /\ \A e \in Range(result.value.graphEdges) :
                   \E n \in Range(result.value.graphNodes) : n.id = e.target /\ Idle(n)

\* the graph for the zero-quantity product Scrap, expanded below its child
C18_Witness ==
    /\ call.fn = "build" /\ result.done
    /\ call.env.targets[1].product = "Scrap"
    /\ call.env.expandedByNode # EmptyMap
    /\ Len(result.value.graphNodes) >= 3
    /\ Len(result.value.graphEdges) >= 2
    /\ result.value.graphNodes[1].runsPerMin = RZero

\* the sum of the rates at the input slots S of `nodes`
RECURSIVE SlotSum(_, _)
SlotSum(nodes, S) ==
    IF S = {} THEN RZero
    ELSE RAdd(nodes[(CHOOSE x \in S : TRUE)[1]].inputs[(CHOOSE x \in S : TRUE)[2]].ratePerMin,
              SlotSum(nodes, S \ {CHOOSE x \in S : TRUE}))

\* x rounded to 2 decimals, halves up, as a fraction of 100
Rounded2(x) == Rat((x[1] * 200 + x[2]) \div (2 * x[2]), 100)

\* raw is, name by name, the rounded sum of the inputs of `nodes` that no
\* recipe produces
RawTotalsOf(nodes, raw) ==
    /\ DOMAIN raw = {i.name : i \in {x \in UNION {Range(n.inputs) : n \in Range(nodes)} :
                                         Producing(x.name) = {}}}
    /\ \A name \in DOMAIN raw :
          raw[name] = Rounded2(SlotSum(nodes, {s \in UNION {{<<k, j>> : j \in DOMAIN nodes[k].inputs} :
                                                                k \in DOMAIN nodes} :
                                                   nodes[s[1]].inputs[s[2]].name = name}))

\* C19: the totals.raw build() publishes maps exactly the names that are an
\* input of some node of the graph and that no recipe produces, each to the
\* sum of the rates of all inputs of that name rounded to 2 decimals; no
\* craftable product has an entry. For Mix at 60/min, whose only craftable
\* input Dust is made from raw Sand, it is the Sand of the root plus the Sand
\* of its child: 2 + 2/15, rounded 2.13
C19_RawTotals ==
    (call.fn = "build" /\ result.done) =>
        /\ RawTotalsOf(result.value.graphNodes, result.value.totals.raw)
        /\ \A name \in DOMAIN result.value.totals.raw : Producing(name) = {}
        /\ call.env.targets[1].product = "Mix"
              => result.value.totals.raw = Put(EmptyMap, "Sand", Rat(213, 100))

\* a raw name drawn by two nodes of the graph, with a total that needed rounding
C19_Witness ==
    /\ call.fn = "build" /\ result.done
    /\ \E name \in DOMAIN result.value.totals.raw :
          /\ \E a, b \in Range(result.value.graphNodes) :
                /\ a.id # b.id
                /\ \E i \in Range(a.inputs) : i.name = name
                /\ \E i \in Range(b.inputs) : i.name = name
          /\ FlattenInputs(result.value.graphNodes, 1) # <<>>
          /\ result.value.totals.raw[name] = Rat(213, 100)

\* the positions in `nodes` of the nodes that are the source of no edge
LeafPositions(nodes, edges) ==
    {k \in DOMAIN nodes : \A e \in Range(edges) : e.source # nodes[k].id}

\* the input slots <<node, input>> named `name` of the leaves of the graph
LeafSlots(nodes, edges, name) ==
    {s \in UNION {{<<k, j>> : j \in DOMAIN nodes[k].inputs} : k \in LeafPositions(nodes, edges)} :
        nodes[s[1]].inputs[s[2]].name = name}

\* the names of the inputs of the leaves of the graph
LeafInputNames(nodes, edges) ==
    UNION {{i.name : i \in Range(nodes[k].inputs)} : k \in LeafPositions(nodes, edges)}

\* C20 as stated: frontierNeeds maps each product to the sum of the input
\* rates for that product over exactly the leaf nodes of the published graph,
\* craftable and raw inputs alike
C20_FrontierIsLeafSum ==
    /\ DOMAIN frontierNeeds = LeafInputNames(graphNodes, graphEdges)
    /\ \A name \in DOMAIN frontierNeeds :
          frontierNeeds[name] = SlotSum(graphNodes, LeafSlots(graphNodes, graphEdges, name))

\* C20, amended: frontierNeeds maps each product that is an input of a leaf
\* node, craftable or raw, to the sum of the input rates for that product over
\* exactly the leaf nodes, rounded to 2 decimals; inputs of nodes with an
\* outgoing edge contribute nothing
C20_FrontierIsRoundedLeafSum ==
    /\ DOMAIN frontierNeeds = LeafInputNames(graphNodes, graphEdges)
    /\ \A name \in DOMAIN frontierNeeds :
          frontierNeeds[name] =
              Rounded2(SlotSum(graphNodes, LeafSlots(graphNodes, graphEdges, name)))

\* a partly expanded graph: a leaf with a craftable and a raw input, both in
\* frontierNeeds, and a node with an outgoing edge whose input is not
C20_Witness ==
    /\ lastOp.built
    /\ \E k \in LeafPositions(graphNodes, graphEdges) :
          /\ \E i \in Range(graphNodes[k].inputs) : Producing(i.name) = {}
          /\ \E i \in Range(graphNodes[k].inputs) : Producing(i.name) # {}
    /\ \E k \in DOMAIN graphNodes \ LeafPositions(graphNodes, graphEdges) :
          \E i \in Range(graphNodes[k].inputs) : i.name \notin DOMAIN frontierNeeds

\* the four published parts of the store
Snapshot == <<graphNodes, graphEdges, totals, frontierNeeds>>

\* C21: in every state a subscriber can observe, after each single store
\* update, totals is the aggregation of the current graphNodes and
\* frontierNeeds the aggregation over the current graphNodes and graphEdges;
\* and an update that changes any of the four changes them to the nodes,
\* edges, totals and frontierNeeds of one build() of the current targets,
\* preferences and budgets (or, for recomputeTotals, to the aggregates of the
\* unchanged nodes and edges)
C21_SnapshotIsOneBuild ==
    [][/\ totals' = computeTotals(graphNodes')
       /\ frontierNeeds' = computeFrontierNeeds(graphNodes', graphEdges')
       /\ Snapshot' # Snapshot =>
            /\ targets' = targets /\ choicesRecipe' = choicesRecipe
            /\ choicesBuilding' = choicesBuilding /\ expandedByProduct' = expandedByProduct
            /\ \/ CurP' = buildP(CurP)
               \/ graphNodes' = graphNodes /\ graphEdges' = graphEdges]_vars

\* between the first update of an expansion and its build(): the budgets are
\* new, the graph shown is still the old one, with its own aggregates
C21_Witness ==
    /\ call = PendingBuild
    /\ lastOp.op = "expandNodeOnce"
    /\ Len(graphNodes) >= 2
    /\ buildP(CurP).graphNodes # graphNodes
    /\ totals = computeTotals(graphNodes)

\* the largest budget stored in the map, 0 for none
LargestBudget(map) == IF DOMAIN map = {} THEN 0 ELSE Max(0, CHOOSE b \in Range(map) : \A x \in Range(map) : x <= b)

\* termination of build(), catalogs with a recipe cycle (Alpha needs Beta,
\* Beta needs Alpha) and a recipe that consumes its own product (Ingot by the
\* Forge) included: its expansion queue empties and the graph is published
C22_BuildTerminates == <>(result.done)

\* C22, the reason: an iteration never lowers a recorded allowance, every item
\* it enqueues carries an allowance just recorded that is above the one
\* recorded before for that node, and no allowance exceeds the largest stored
\* budget
C22_AllowancesOnlyRise ==
    [][(~result.done /\ ~result'.done) =>
          /\ \A id \in DOMAIN result.st.bestRem :
                id \in DOMAIN result'.st.bestRem /\ result'.st.bestRem[id] >= result.st.bestRem[id]
          /\ \A id \in DOMAIN result'.st.bestRem :
                result'.st.bestRem[id] <= LargestBudget(call.env.expandedByNode)
          /\ Len(result'.st.queue) > Len(result.st.queue) =>
                /\ Len(result'.st.queue) = Len(result.st.queue) + 1
                /\ result'.st.queue[Len(result'.st.queue)].rem
                      = result'.st.bestRem[result'.st.queue[Len(result'.st.queue)].id]
                /\ result'.st.queue[Len(result'.st.queue)].rem
                      > GetOr(result.st.bestRem, result'.st.queue[Len(result'.st.queue)].id, -1)]_vars

\* C22: build() terminates, on cycles and self-consumption too, and it does
\* so because every step keeps the allowances rising, re-enqueues a node only
\* with a strictly larger allowance, and no allowance exceeds the largest
\* stored budget.
C22_TerminatesWithRisingAllowances == C22_BuildTerminates /\ C22_AllowancesOnlyRise

\* build() finished on the cycle Alpha <-> Beta with budgets on both nodes,
\* the two nodes pointing at each other
C22_Witness ==
    /\ call.fn = "bfs" /\ result.done
    /\ call.env.targets[1].product = "Alpha"
    /\ DOMAIN call.env.expandedByNode = {"Alpha::R17", "Beta::R18"}
    /\ \E e \in Range(result.value.graphEdges) : e.source = "Beta::R18" /\ e.target = "Alpha::R17"
    /\ \E e \in Range(result.value.graphEdges) : e.source = "Alpha::R17" /\ e.target = "Beta::R18"

\* the stored budget of node id, 0 for none
BudgetOf(env, id) == GetOr(env.expandedByNode, id, 0)

\* the allowance recorded for node id, -1 for none
AllowanceOf(st, id) == GetOr(st.bestRem, id, -1)

\* the recipe ensureNode resolves for input `name` of node p, a RECIPES index
ChildRecipe(env, p, name) ==
    pickRecipeWithPrefs(name, Get(env.choicesRecipe, name), Get(env.choicesBuilding, name),
                        p.building)

\* the child with recipe r of p for input `name` is there, linked, and holds
\* at least max(a - 1, its own budget) when that is positive
ChildRelaxed(st, env, p, a, name, r) ==
    /\ r # 0
    /\ NodeIndex(st.nodes, nodeIdFor(name, RECIPES[r].recipeId)) # 0
    /\ \E e \in Range(st.edges) :
          e.source = p.id /\ e.target = nodeIdFor(name, RECIPES[r].recipeId)
    /\ Max(a - 1, BudgetOf(env, nodeIdFor(name, RECIPES[r].recipeId))) > 0
          => AllowanceOf(st, nodeIdFor(name, RECIPES[r].recipeId))
                >= Max(a - 1, BudgetOf(env, nodeIdFor(name, RECIPES[r].recipeId)))

FixedPoint(st, env) ==
    /\ \A n \in Range(st.nodes) :
          BudgetOf(env, n.id) > 0 => AllowanceOf(st, n.id) >= BudgetOf(env, n.id)
    /\ \A p \in Range(st.nodes) : \A k \in DOMAIN p.inputs :
          (AllowanceOf(st, p.id) > 0 /\ Craftable(p.inputs[k].name))
             => ChildRelaxed(st, env, p, AllowanceOf(st, p.id), p.inputs[k].name,
                             ChildRecipe(env, p, p.inputs[k].name))

\* C23: when the expansion queue of build() is empty, every node with a stored
\* budget b > 0 holds an allowance of at least b, and for every node with a
\* positive allowance a and every craftable input the child exists, the edge
\* to it exists, and the child's allowance is at least max(a - 1, the child's
\* own budget) whenever that is positive.
C23_AllowancesAreFixedPoint ==
    (call.fn = "bfs" /\ result.cur = NoItem /\ result.st.queue = <<>>)
       => FixedPoint(result.st, call.env)

\* build() finished for Gear with budget 2 on the root and 2 on Ingot::R5:
\* Ingot::R5 inherits 0 through Plate::R2 and holds its own 2, and its child
\* Ore::R7 holds 1
C23_Witness ==
    /\ call.fn = "bfs" /\ result.done
    /\ call.env.targets[1].product = "Gear"
    /\ BudgetOf(call.env, "Ingot::R5") = 2
    /\ AllowanceOf(result.st, "Plate::R2") = 1
    /\ AllowanceOf(result.st, "Ingot::R5") = 2
    /\ AllowanceOf(result.st, "Ore::R7") = 1

\* the step of parent p for its input i, resolved to recipe r and node id cid,
\* led from `nodes` to `nodes2` and `edges2`: a child that was there is left
\* as it was, a new one is made from the rate p asks for, there is one node
\* with that id, and p has an edge to it
ReusedOrMade(nodes, nodes2, edges2, p, i, r, cid) ==
    /\ r # 0
    /\ IF NodeIndex(nodes, cid) = 0
       THEN nodes2 = Append(nodes, makeNode(RECIPES[r], i.name, i.ratePerMin, p.depth + 1))
       ELSE nodes2 = nodes
    /\ Cardinality({k \in DOMAIN nodes2 : nodes2[k].id = cid}) = 1
    /\ \E e \in Range(edges2) : e.source = p.id /\ e.target = cid

ChildIdOf(name, r) == IF r = 0 THEN "" ELSE nodeIdFor(name, RECIPES[r].recipeId)

\* C24: when a parent asks for a product through a recipe whose node another
\* parent has materialized already, no second node is made, the node keeps
\* the runsPerMin and the input/output rates computed from the first parent's
\* required rate, and the later parent gets its edge to it.
C24_SharedChildKeepsFirstRates ==
    [][AtCraftableInput =>
          ReusedOrMade(result.st.nodes, result'.st.nodes, result'.st.edges,
                       result.st.nodes[result.cur.parent],
                       result.st.nodes[result.cur.parent].inputs[result.cur.k],
                       ChildRecipe(call.env, result.st.nodes[result.cur.parent],
                                   result.st.nodes[result.cur.parent].inputs[result.cur.k].name),
                       ChildIdOf(result.st.nodes[result.cur.parent].inputs[result.cur.k].name,
                                 ChildRecipe(call.env, result.st.nodes[result.cur.parent],
                                             result.st.nodes[result.cur.parent].inputs[result.cur.k].name)))]_vars

\* the rate node id asks of its input `name`
InputRateOf(nodes, id, name) ==
    LET n == nodes[NodeIndex(nodes, id)]
    IN  n.inputs[CHOOSE k \in DOMAIN n.inputs : n.inputs[k].name = name].ratePerMin

\* build() finished for Gear: Ingot::R5 made Ore::R7 for its own demand, then
\* Ingot::R6, which asks a different rate of Ore, was linked to the same node
C24_Witness ==
    /\ call.fn = "bfs" /\ result.done
    /\ call.env.targets[1].product = "Gear"
    /\ \E e \in Range(result.st.edges) : e.source = "Ingot::R5" /\ e.target = "Ore::R7"
    /\ \E e \in Range(result.st.edges) : e.source = "Ingot::R6" /\ e.target = "Ore::R7"
    /\ Cardinality({k \in DOMAIN result.st.nodes : result.st.nodes[k].product = "Ore"}) = 1
    /\ result.st.nodes[NodeIndex(result.st.nodes, "Ore::R7")]
          = makeNode(RECIPES[7], "Ore", InputRateOf(result.st.nodes, "Ingot::R5", "Ore"), 3)
    /\ InputRateOf(result.st.nodes, "Ingot::R6", "Ore")
          # InputRateOf(result.st.nodes, "Ingot::R5", "Ore")

\* node id is reached from the root by an edge path of exactly d edges
RECURSIVE ReachedIn(_, _, _, _)
ReachedIn(nodes, edges, id, d) ==
    IF d = 0 THEN id = nodes[1].id
    ELSE \E e \in Range(edges) : e.target = id /\ ReachedIn(nodes, edges, e.source, d - 1)

\* the depths of a graph under construction for one target
DepthsFromRoot(nodes, edges) ==
    \A k \in DOMAIN nodes :
       /\ (nodes[k].depth = 0) <=> (k = 1)
       /\ nodes[k].depth >= 0
       /\ k > 1 => \E e \in Range(edges) :
                      /\ e.target = nodes[k].id
                      /\ NodeIndex(nodes, e.source) # 0
                      /\ nodes[NodeIndex(nodes, e.source)].depth = nodes[k].depth - 1
       /\ ReachedIn(nodes, edges, nodes[k].id, nodes[k].depth)

\* a step from `nodes` to `nodes2` while item `cur` is in process: no depth
\* changes, and a node that is new is one level below the parent in process
DepthsKept(nodes, nodes2, cur) ==
    /\ Len(nodes2) >= Len(nodes)
    /\ \A k \in DOMAIN nodes : nodes2[k].depth = nodes[k].depth
    /\ \A k \in DOMAIN nodes2 \ DOMAIN nodes :
          cur.parent # 0 /\ nodes2[k].depth = nodes[cur.parent].depth + 1

\* C25: in a graph built for one target the root is the only node of depth 0;
\* every other node has the depth of the node that materialized it plus one,
\* an incoming edge from a node one level up and an edge path of length depth
\* from the root; no later visit changes a depth.
C25_DepthIsFirstAssigned ==
    [][/\ DepthsFromRoot(result.st.nodes, result.st.edges)
       /\ DepthsFromRoot(result'.st.nodes, result'.st.edges)
       /\ DepthsKept(result.st.nodes, result'.st.nodes, result.cur)]_vars

\* build() finished on the cycle: Beta::R18 came back to the root Alpha::R17,
\* which is still at depth 0; and for Gear, Ore::R7 sits at depth 3
C25_Witness ==
    /\ call.fn = "bfs" /\ result.done
    /\ \/ /\ call.env.targets[1].product = "Alpha"
          /\ \E e \in Range(result.st.edges) : e.source = "Beta::R18" /\ e.target = "Alpha::R17"
          /\ result.st.nodes[1].id = "Alpha::R17" /\ result.st.nodes[1].depth = 0
       \/ /\ call.env.targets[1].product = "Gear"
          /\ NodeIndex(result.st.nodes, "Ore::R7") # 0
          /\ result.st.nodes[NodeIndex(result.st.nodes, "Ore::R7")].depth = 3

\* recipe id r is the id of a recipe with an output named `product`
Produces(r, product) ==
    \E k \in DOMAIN RECIPES :
       RECIPES[k].recipeId = r /\ \E o \in Range(RECIPES[k].outputs) : o.name = product

\* the store state s2 after the swap of the node n to recipe r
Swapped(s2, n, r) ==
    /\ Get(s2.choicesRecipe, n.product) = r
    /\ Get(s2.choicesBuilding, n.product)
          = RECIPES[CHOOSE k \in DOMAIN RECIPES : RECIPES[k].recipeId = r].building
    /\ \A m \in Range(s2.graphNodes) : m.product = n.product => m.recipeId = r
    /\ Cardinality({k \in DOMAIN s2.graphNodes : s2.graphNodes[k].product = n.product}) <= 1

WellFormedEdge(nodes, e) ==
    /\ NodeIndex(nodes, e.source) # 0
    /\ NodeIndex(nodes, e.target) # 0
    /\ e.label = nodes[NodeIndex(nodes, e.target)].product
    /\ \E i \in Range(nodes[NodeIndex(nodes, e.source)].inputs) : i.name = e.label

\* C27: in every graph build() publishes, the source and the target of every
\* edge are ids of nodes of the graph, the label is the product of the target
\* node, and the label is the name of an input of the source node.
C27_EdgesAreWellFormed == \A e \in Range(graphEdges) : WellFormedEdge(graphNodes, e)

\* a published graph with edges below the first hop, one of them from a node
\* to itself
C27_Witness ==
    /\ Len(graphEdges) >= 4
    /\ \E e \in Range(graphEdges) : e.source = e.target
    /\ \E e \in Range(graphEdges) : graphNodes[NodeIndex(graphNodes, e.source)].depth >= 2

\* an expand operation was called in a state whose graph is the one build()
\* yields from its targets, preferences and budgets, and has returned
ExpandedInSync ==
    /\ call.fn \in {"expandNodeOnce", "expandBranchBy"}
    /\ result.done
    /\ InSync(call.s)

EdgeTriples(edges) == {<<e.source, e.target, e.label>> : e \in Range(edges)}

\* C28: called in a state whose graph is in sync with its budgets,
\* expandNodeOnce and expandBranchBy remove nothing: every node id and every
\* (source, target, label) edge of the graph before is in the graph after.
C28_ExpandRemovesNothing ==
    ExpandedInSync =>
       /\ NodeIds(call.s.graphNodes) \subseteq NodeIds(result.value.graphNodes)
       /\ EdgeTriples(call.s.graphEdges) \subseteq EdgeTriples(result.value.graphEdges)

\* expandBranchBy on Rod::R4 in the graph of Gear with two hops: nodes and
\* edges were added below Rod::R4 and the graph before is still there
C28_Witness ==
    /\ ExpandedInSync
    /\ call.fn = "expandBranchBy" /\ call.nodeId = "Rod::R4" /\ call.hops >= 2
    /\ call.s.expandedByNode # EmptyMap
    /\ Len(result.value.graphNodes) > Len(call.s.graphNodes)
    /\ Len(result.value.graphEdges) > Len(call.s.graphEdges)
    /\ Len(call.s.graphEdges) >= 4

\* the runsPerMin and the input and output rates of a node
RatesOf(n) == [runsPerMin |-> n.runsPerMin, inputs |-> n.inputs, outputs |-> n.outputs]

\* C29: called in a state whose graph is in sync with its budgets,
\* expandNodeOnce and expandBranchBy leave the runsPerMin, the input rates and
\* the output rates of every node that was visible before as they were.
C29_ExpandKeepsVisibleRates ==
    ExpandedInSync =>
       \A n \in Range(call.s.graphNodes) :
          /\ NodeIndex(result.value.graphNodes, n.id) # 0
          /\ RatesOf(result.value.graphNodes[NodeIndex(result.value.graphNodes, n.id)]) = RatesOf(n)

\* every craftable input of every node has an edge from the node to a child
\* for it
FullyExpanded(nodes, edges) ==
    \A n \in Range(nodes) : \A i \in Range(n.inputs) :
       Craftable(i.name) => \E e \in Range(edges) : e.source = n.id /\ e.label = i.name

\* no node draws a raw input beside a craftable one
RawOnlyAtLeaves(nodes) ==
    \A n \in Range(nodes) :
       (\E i \in Range(n.inputs) : Craftable(i.name))
          => (\A i \in Range(n.inputs) : Craftable(i.name))

\* C30: when the graph is fully expanded, frontierNeeds and
\* totals.raw are the same mapping.
C30_FrontierIsRawDraw ==
    FullyExpanded(graphNodes, graphEdges) => frontierNeeds = totals.raw

\* node n has no craftable input
DrawsRawOnly(n) == \A i \in Range(n.inputs) : ~Craftable(i.name)

\* C30, amended: when the graph is fully expanded, frontierNeeds is the raw
\* draw of the nodes without a craftable input, and it is totals.raw when no
\* node draws a raw input beside a craftable one.
C30_FrontierIsLeafRawDraw ==
    FullyExpanded(graphNodes, graphEdges) =>
       /\ frontierNeeds = computeTotals(SelectSeq(graphNodes, DrawsRawOnly)).raw
       /\ RawOnlyAtLeaves(graphNodes) => frontierNeeds = totals.raw

\* the chain of Cog expanded down to Dust::R14, whose Sand is all there is to
\* supply
C30_Witness ==
    /\ FullyExpanded(graphNodes, graphEdges)
    /\ RawOnlyAtLeaves(graphNodes)
    /\ Len(graphNodes) >= 5
    /\ DOMAIN frontierNeeds = {"Sand"}
    /\ frontierNeeds = totals.raw
====

